---- MODULE Spec2Model ----
(***************************************************************************)
(* Model of github.com/zauberhaus/config: the path index (pkg/index), the  *)
(* environment layer (pkg/env), the flag layer (pkg/flags) and the layered *)
(* loader (config.Load).                                                   *)
(*                                                                         *)
(* Strings are sequences of one-character strings, so that the string      *)
(* operations of the code (regexp matching, replacement, trimming,         *)
(* case conversion) are computed and not assumed.                          *)
(***************************************************************************)
EXTENDS Integers, Sequences, FiniteSets, TLC

\* ------------------------------------------------------------------------
\* Strings
\* ------------------------------------------------------------------------

LowerAlpha == <<"a","b","c","d","e","f","g","h","i","j","k","l","m",
                "n","o","p","q","r","s","t","u","v","w","x","y","z">>

UpperAlpha == <<"A","B","C","D","E","F","G","H","I","J","K","L","M",
                "N","O","P","Q","R","S","T","U","V","W","X","Y","Z">>

Range(f) == {f[i] : i \in DOMAIN f}

IsLowerC(c) == c \in Range(LowerAlpha)

IsUpperC(c) == c \in Range(UpperAlpha)

PosIn(alpha, c) == CHOOSE i \in DOMAIN alpha : alpha[i] = c

ToUpperC(c) == IF IsLowerC(c) THEN UpperAlpha[PosIn(LowerAlpha, c)] ELSE c

ToLowerC(c) == IF IsUpperC(c) THEN LowerAlpha[PosIn(UpperAlpha, c)] ELSE c

\* strings.ToUpper / strings.ToLower
ToUpper(s) == [i \in DOMAIN s |-> ToUpperC(s[i])]

ToLower(s) == [i \in DOMAIN s |-> ToLowerC(s[i])]

\* position of the first occurrence of sub in s at or after position i; 0 if none
IndexFrom(s, sub, i) ==
    LET hits == {j \in i..(Len(s) - Len(sub) + 1) :
                    \A k \in 1..Len(sub) : s[j + k - 1] = sub[k]}
    IN IF hits = {} THEN 0 ELSE CHOOSE j \in hits : \A k \in hits : j <= k

\* strings.HasPrefix / strings.HasSuffix / strings.Contains / strings.TrimPrefix
HasPrefix(s, p) == Len(s) >= Len(p) /\ SubSeq(s, 1, Len(p)) = p

HasSuffix(s, p) == Len(s) >= Len(p) /\ SubSeq(s, Len(s) - Len(p) + 1, Len(s)) = p

Contains(s, sub) == IndexFrom(s, sub, 1) # 0

TrimPrefix(s, p) == IF HasPrefix(s, p) THEN SubSeq(s, Len(p) + 1, Len(s)) ELSE s

\* strings.Trim(s, cutset)
Trim(s, cutset) ==
    LET keep == {i \in DOMAIN s : s[i] \notin cutset}
    IN IF keep = {} THEN <<>>
       ELSE LET lo == CHOOSE i \in keep : \A k \in keep : i <= k
                hi == CHOOSE i \in keep : \A k \in keep : i >= k
            IN SubSeq(s, lo, hi)

\* strings.Replace(s, old, new, 1)
ReplaceFirst(s, old, new) ==
    LET j == IndexFrom(s, old, 1)
    IN IF j = 0 THEN s
       ELSE SubSeq(s, 1, j - 1) \o new \o SubSeq(s, j + Len(old), Len(s))

\* strings.Replace(s, old, new, -1) for a non-empty old
RECURSIVE ReplaceAllFrom(_, _, _, _)
ReplaceAllFrom(s, old, new, i) ==
    LET j == IndexFrom(s, old, i)
    IN IF j = 0 THEN SubSeq(s, i, Len(s))
       ELSE SubSeq(s, i, j - 1) \o new \o ReplaceAllFrom(s, old, new, j + Len(old))

ReplaceAll(s, old, new) == IF old = <<>> THEN s ELSE ReplaceAllFrom(s, old, new, 1)

\* strings.Join
RECURSIVE Join(_, _)
Join(parts, sep) ==
    IF parts = <<>> THEN <<>>
    ELSE IF Len(parts) = 1 THEN parts[1]
    ELSE parts[1] \o sep \o Join(Tail(parts), sep)

\* byte-wise string comparison (sort.Strings / strings.Compare) on the
\* characters the model uses: their code points
CharCode(c) ==
    IF IsUpperC(c) THEN 64 + PosIn(UpperAlpha, c)
    ELSE IF IsLowerC(c) THEN 96 + PosIn(LowerAlpha, c)
    ELSE CASE c = " " -> 32 [] c = "-" -> 45 [] c = "." -> 46
           [] c = "0" -> 48 [] c = "1" -> 49 [] c = "2" -> 50 [] c = "3" -> 51
           [] c = "=" -> 61 [] c = "[" -> 91 [] c = "]" -> 93 [] c = "_" -> 95
           [] OTHER -> 127

RECURSIVE StrLess(_, _)
StrLess(a, b) ==
    IF b = <<>> THEN FALSE
    ELSE IF a = <<>> THEN TRUE
    ELSE IF CharCode(a[1]) # CharCode(b[1]) THEN CharCode(a[1]) < CharCode(b[1])
    ELSE StrLess(Tail(a), Tail(b))

\* ------------------------------------------------------------------------
\* pkg/index: the regular expression  braces = \[([^\]]*)\]
\* ------------------------------------------------------------------------

LB == <<"[">>

RB == <<"]">>

EmptyBrackets == <<"[", "]">>

\* braces.FindAllStringSubmatch(name, -1), the first group of every match:
\* a match starts at the leftmost "[" that has a "]" after it and ends at
\* the first "]" after it
RECURSIVE BracesSubmatches(_, _)
BracesSubmatches(name, i) ==
    LET o == IndexFrom(name, LB, i)
        c == IF o = 0 THEN 0 ELSE IndexFrom(name, RB, o + 1)
    IN IF o = 0 \/ c = 0 THEN <<>>
       ELSE <<SubSeq(name, o + 1, c - 1)>> \o BracesSubmatches(name, c + 1)

\* ReplaceAllString(name, ""): the groups are dropped, not replaced by []
RECURSIVE BracesReplaceAllDrop(_, _)
BracesReplaceAllDrop(name, i) ==
    LET o == IndexFrom(name, LB, i)
        c == IF o = 0 THEN 0 ELSE IndexFrom(name, RB, o + 1)
    IN IF o = 0 \/ c = 0 THEN SubSeq(name, i, Len(name))
       ELSE SubSeq(name, i, o - 1) \o BracesReplaceAllDrop(name, c + 1)

\* braces.ReplaceAllString(name, "[]")
RECURSIVE BracesReplaceAll(_, _)
BracesReplaceAll(name, i) ==
    LET o == IndexFrom(name, LB, i)
        c == IF o = 0 THEN 0 ELSE IndexFrom(name, RB, o + 1)
    IN IF o = 0 \/ c = 0 THEN SubSeq(name, i, Len(name))
       ELSE SubSeq(name, i, o - 1) \o EmptyBrackets \o BracesReplaceAll(name, c + 1)

\* the loop of Index.Find: one strings.Replace(r.Path, "[]", "["+p+"]", 1)
\* for each extracted parameter, in order
RECURSIVE SubstituteParams(_, _)
SubstituteParams(path, params) ==
    IF params = <<>> THEN path
    ELSE SubstituteParams(ReplaceFirst(path, EmptyBrackets, LB \o params[1] \o RB),
                          Tail(params))

\* Index.Find: [path, ok]
Find(v, name) ==
    LET params == BracesSubmatches(name, 1)
        canon  == BracesReplaceAll(name, 1)
    IN IF canon \in DOMAIN v
       THEN [path |-> SubstituteParams(v[canon].Path, params), ok |-> TRUE]
       ELSE [path |-> <<>>, ok |-> FALSE]

\* Index.Exists
Exists(v, name) == \E k \in DOMAIN v : BracesReplaceAll(name, 1) = k

\* Index.PathExists
PathExists(v, name) == \E k \in DOMAIN v : BracesReplaceAll(name, 1) = v[k].Path

\* the Index after Find had its Item written back under the key, as it would
\* be were r not a copy
IndexAfterFindStored(v, name) ==
    LET key == BracesReplaceAll(name, 1)
    IN IF key \in DOMAIN v
       THEN [k \in DOMAIN v |-> IF k = key THEN [v[k] EXCEPT !.Path = Find(v, name).path]
                                 ELSE v[k]]
       ELSE v

\* the Index after Find(name): r, ok := v[name] copies the Item (a struct
\* value) out of the map, the Replace loop assigns to the copy's Path, and
\* nothing is stored back
IndexAfterFind(v, name) == v

\* ------------------------------------------------------------------------
\* pkg/index: SnakeCase
\* ------------------------------------------------------------------------

\* stringy's camel-case split: a blank between a lower-case letter and the
\* upper-case letter that follows it
RECURSIVE CamelSplit(_)
CamelSplit(s) ==
    IF Len(s) < 2 THEN s
    ELSE IF IsLowerC(s[1]) /\ IsUpperC(s[2])
         THEN <<s[1], " ">> \o CamelSplit(Tail(s))
         ELSE <<s[1]>> \o CamelSplit(Tail(s))

\* stringy's rule replacer: "?" is deleted, ".", "_" and "-" become blanks
RECURSIVE ApplyRules(_)
ApplyRules(s) ==
    IF s = <<>> THEN <<>>
    ELSE IF s[1] = "?" THEN ApplyRules(Tail(s))
    ELSE IF s[1] \in {".", "_", "-"} THEN <<" ">> \o ApplyRules(Tail(s))
    ELSE <<s[1]>> \o ApplyRules(Tail(s))

\* strings.Fields: the maximal blank-free pieces of s
RECURSIVE Fields(_)
Fields(s) ==
    LET t == Trim(s, {" "})
        j == IndexFrom(t, <<" ">>, 1)
    IN IF t = <<>> THEN <<>>
       ELSE IF j = 0 THEN <<t>>
       ELSE <<SubSeq(t, 1, j - 1)>> \o Fields(SubSeq(t, j + 1, Len(t)))

\* SnakeCase: a string that is all upper or all lower case is returned as
\* it is, any other string becomes upper snake case
SnakeCase(s) ==
    IF ToUpper(s) = s \/ ToLower(s) = s THEN s
    ELSE ToUpper(Join(Fields(ApplyRules(CamelSplit(s))), <<"_">>))

\* ------------------------------------------------------------------------
\* pkg/index: types, items and the reflective walker
\* ------------------------------------------------------------------------

\* error values; NoErr is Go's nil error
NoErr == [kind |-> "nil", name |-> <<>>]

ErrSkipCollection(p) == [kind |-> "skip", name |-> p]

NotFoundError(n) == [kind |-> "notfound", name |-> n]

\* reflect.Type descriptors
Scalar(k) == [kind |-> k, tm |-> FALSE]

TextScalar(k) == [kind |-> k, tm |-> TRUE]

Pointer(t) == [kind |-> "ptr", elem |-> t]

Collection(k, t) == [kind |-> k, elem |-> t, tm |-> FALSE]

Struct(fs) == [kind |-> "struct", fields |-> fs, tm |-> FALSE]

TextStruct(fs) == [kind |-> "struct", fields |-> fs, tm |-> TRUE]

\* reflect.StructField: the name, the env tag, the type and the default tag
FieldDefault(n, e, t, d) == [name |-> n, env |-> e, type |-> t, def |-> d]

Field(n, e, t) == FieldDefault(n, e, t, <<>>)

\* reflect.StructField.IsExported
IsExported(f) == f.name # <<>> /\ IsUpperC(f.name[1])

\* Type.Implements(encoding.TextUnmarshaler) for the pointer to t
Implements(t) == t.kind # "ptr" /\ t.tm

CollectionKinds == {"array", "slice", "map"}

\* index.Item with the placeholders left out of the Path
ItemDropPlaceholders(p, t, o) ==
    [Path |-> ReplaceAll(p, EmptyBrackets, <<>>), Type |-> t.kind, Optional |-> o]

\* an Item that is never Optional
ItemNeverOptional(p, t, o) == [Path |-> p, Type |-> t.kind, Optional |-> FALSE]

\* index.Item; Type is kept as the kind of the reflect.Type
Item(p, t, o) == [Path |-> p, Type |-> t.kind, Optional |-> o]

EmptyIndex == <<>>

\* maps.Insert(m, maps.All(tmp))
MapsInsert(m, tmp) ==
    [k \in DOMAIN m \cup DOMAIN tmp |-> IF k \in DOMAIN tmp THEN tmp[k] ELSE m[k]]

\* m[k] = item
MapPut(m, k, item) == [x \in DOMAIN m \cup {k} |-> IF x = k THEN item ELSE m[x]]

\* the loop  for v.Kind() == reflect.Pointer { v = v.Elem() }
RECURSIVE Deref(_)
Deref(t) == IF t.kind = "ptr" THEN Deref(t.elem) ELSE t

\* tag[len(tag)-1] += "[]"
AppendLast(parts, suffix) ==
    [i \in DOMAIN parts |-> IF i = Len(parts) THEN parts[i] \o suffix ELSE parts[i]]

\* the rename table of collect: strings.Replace(env, k, v, -1) for each pair
RECURSIVE ApplyReplacer(_, _)
ApplyReplacer(env, d) ==
    IF d = <<>> THEN env
    ELSE ApplyReplacer(ReplaceAll(env, d[1][1], d[1][2]), Tail(d))

RECURSIVE collect(_, _, _, _, _)
RECURSIVE collectFields(_, _, _, _, _, _)

\* collectFields with the key segment of an env:"-" field kept
RECURSIVE collectFieldsKeepSegment(_, _, _, _, _, _)
collectFieldsKeepSegment(v, i, m, tag, path, d) ==
    IF i > Len(v.fields) THEN [m |-> m, err |-> NoErr]
    ELSE
      LET field == v.fields[i]
      IN IF ~IsExported(field) \/ field.env = <<"-", "-">>
         THEN collectFieldsKeepSegment(v, i + 1, m, tag, path, d)
         ELSE
           LET env == IF field.env \in {<<>>, <<"-">>} THEN ApplyReplacer(field.name, d) ELSE field.env
               tmp == collect(field.type, Append(tag, SnakeCase(env)),
                              Append(path, ToLower(field.name)), field.env = <<"-">>, d)
           IN IF tmp.err # NoErr THEN tmp
              ELSE collectFieldsKeepSegment(v, i + 1, MapsInsert(m, tmp.m), tag, path, d)

\* the loop over the fields of a struct in collect, from field i on
collectFields(v, i, m, tag, path, d) ==
    IF i > Len(v.fields) THEN [m |-> m, err |-> NoErr]
    ELSE
      LET field == v.fields[i]
      IN IF ~IsExported(field) \/ field.env = <<"-", "-">>
         THEN collectFields(v, i + 1, m, tag, path, d)
         ELSE
           LET env == IF field.env = <<>> THEN ApplyReplacer(field.name, d) ELSE field.env
               tmp == IF field.env = <<"-">>
                      THEN collect(field.type, tag, Append(path, ToLower(field.name)), TRUE, d)
                      ELSE collect(field.type, Append(tag, SnakeCase(env)),
                                   Append(path, ToLower(field.name)), FALSE, d)
           IN IF tmp.err # NoErr THEN tmp
              ELSE collectFields(v, i + 1, MapsInsert(m, tmp.m), tag, path, d)

\* collect with an env:"-" collection flattened like a record: the entries
\* of its elements are handed up instead of the error
RECURSIVE collectSkipThrough(_, _, _, _, _)
collectSkipThrough(v0, tag, path, skip, d) ==
    LET isPtr == v0.kind = "ptr"
        v     == Deref(v0)
    IN IF v.kind \in CollectionKinds
       THEN
         LET e0 == v.elem
             ma == IF e0.kind = "ptr" THEN Implements(e0.elem) ELSE Implements(e0)
             e  == IF e0.kind = "ptr" THEN e0.elem ELSE e0
         IN IF ~skip
            THEN
              LET m1    == MapPut(EmptyIndex, Join(tag, <<"_">>),
                                  Item(Join(path, <<".">>), v, isPtr))
                  tag2  == AppendLast(tag, EmptyBrackets)
                  path2 == AppendLast(path, EmptyBrackets)
              IN IF ma
                 THEN [m |-> MapPut(m1, Join(tag2, <<"_">>),
                                    Item(Join(path2, <<".">>), e, isPtr)),
                       err |-> NoErr]
                 ELSE LET tmp == collectSkipThrough(e, tag2, path2, FALSE, d)
                      IN IF tmp.err # NoErr THEN tmp
                         ELSE [m |-> MapsInsert(m1, tmp.m), err |-> NoErr]
            ELSE
              IF ~ma
              THEN collectSkipThrough(e, tag, path, skip, d)
              ELSE [m |-> EmptyIndex, err |-> NoErr]
       ELSE IF v.kind = "struct"
       THEN
         LET m1 == IF ~skip /\ Len(path) > 0
                   THEN MapPut(EmptyIndex, Join(tag, <<"_">>),
                               Item(Join(path, <<".">>), v, isPtr))
                   ELSE EmptyIndex
         IN collectFields(v, 1, m1, tag, path, d)
       ELSE
         IF ~skip
         THEN [m |-> MapPut(EmptyIndex, Join(tag, <<"_">>),
                            Item(Join(path, <<".">>), v, isPtr)),
               err |-> NoErr]
         ELSE [m |-> EmptyIndex, err |-> NoErr]

collect(v0, tag, path, skip, d) ==
    LET isPtr == v0.kind = "ptr"
        v     == Deref(v0)
    IN IF v.kind \in CollectionKinds
       THEN
         LET e0 == v.elem
             ma == IF e0.kind = "ptr" THEN Implements(e0.elem) ELSE Implements(e0)
             e  == IF e0.kind = "ptr" THEN e0.elem ELSE e0
         IN IF ~skip
            THEN
              LET m1    == MapPut(EmptyIndex, Join(tag, <<"_">>),
                                  Item(Join(path, <<".">>), v, isPtr))
                  tag2  == AppendLast(tag, EmptyBrackets)
                  path2 == AppendLast(path, EmptyBrackets)
              IN IF ma
                 THEN [m |-> MapPut(m1, Join(tag2, <<"_">>),
                                    Item(Join(path2, <<".">>), e, isPtr)),
                       err |-> NoErr]
                 ELSE LET tmp == collect(e, tag2, path2, FALSE, d)
                      IN IF tmp.err # NoErr THEN tmp
                         ELSE [m |-> MapsInsert(m1, tmp.m), err |-> NoErr]
            ELSE
              IF ~ma
              THEN LET tmp == collect(e, tag, path, skip, d)
                   IN IF tmp.err # NoErr THEN tmp
                      ELSE IF DOMAIN tmp.m # {}
                           THEN [m |-> EmptyIndex,
                                 err |-> ErrSkipCollection(Join(path, <<".">>))]
                           ELSE [m |-> EmptyIndex, err |-> NoErr]
              ELSE [m |-> EmptyIndex, err |-> NoErr]
       ELSE IF v.kind = "struct"
       THEN
         LET m1 == IF ~skip /\ Len(path) > 0
                   THEN MapPut(EmptyIndex, Join(tag, <<"_">>),
                               Item(Join(path, <<".">>), v, isPtr))
                   ELSE EmptyIndex
         IN collectFields(v, 1, m1, tag, path, d)
       ELSE
         IF ~skip
         THEN [m |-> MapPut(EmptyIndex, Join(tag, <<"_">>),
                            Item(Join(path, <<".">>), v, isPtr)),
               err |-> NoErr]
         ELSE [m |-> EmptyIndex, err |-> NoErr]

\* index.New
New(t, d) ==
    LET v == Deref(t)
    IN IF v.kind # "struct" THEN [m |-> EmptyIndex, err |-> NoErr]
       ELSE collect(v, <<>>, <<>>, FALSE, d)

\* ------------------------------------------------------------------------
\* Record types the index is built for
\* ------------------------------------------------------------------------

TString == Scalar("string")

TInt == Scalar("int")

NoTag == <<>>

\* struct { Host string; Port int }                 (examples/basic MyConfig)
FlatConfig == Struct(<<Field(<<"H","o","s","t">>, NoTag, TString), Field(<<"P","o","r","t">>, NoTag, TInt)>>)

\* struct { Host string; Sub struct { Name string }; Sub2 *struct { Name string };
\*          PtrField *int }                          (TestLoadConfig, TestIndex_Pointers)
PointerConfig ==
    Struct(<<Field(<<"H","o","s","t">>, NoTag, TString),
             Field(<<"S","u","b">>, NoTag, Struct(<<Field(<<"N","a","m","e">>, NoTag, TString)>>)),
             Field(<<"S","u","b","2">>, NoTag, Pointer(Struct(<<Field(<<"N","a","m","e">>, NoTag, TString)>>))),
             Field(<<"P","t","r","F","i","e","l","d">>, NoTag, Pointer(TInt))>>)

\* struct { Db struct { Set []struct { Name string; Tags map[string]string };
\*                      WL []net.IP `env:"WL"` } }   (IndexTestConfig)
CollectionConfig ==
    Struct(<<Field(<<"D","b">>, NoTag,
                   Struct(<<Field(<<"S","e","t">>, NoTag,
                                  Collection("slice",
                                      Struct(<<Field(<<"N","a","m","e">>, NoTag, TString),
                                               Field(<<"T","a","g","s">>, NoTag,
                                                     Collection("map", TString))>>))),
                            Field(<<"W","h","i","t","e","L","i","s","t">>, <<"W","L">>,
                                  Collection("slice", TextScalar("slice")))>>))>>)

\* struct { Server struct { Host string; Settings2 struct { Name string } `env:"-"`;
\*          Settings3 struct { Name string } `env:"--"`; hidden string;
\*          Hidden string `env:"-"` } }              (IndexTestConfig)
SkipConfig ==
    Struct(<<Field(<<"S","e","r","v","e","r">>, NoTag,
                   Struct(<<Field(<<"H","o","s","t">>, NoTag, TString),
                            Field(<<"S","e","t","t","i","n","g","s","2">>, <<"-">>,
                                  Struct(<<Field(<<"N","a","m","e">>, NoTag, TString)>>)),
                            Field(<<"S","e","t","t","i","n","g","s","3">>, <<"-","-">>,
                                  Struct(<<Field(<<"N","a","m","e">>, NoTag, TString)>>)),
                            Field(<<"h","i","d","d","e","n">>, NoTag, TString),
                            Field(<<"H","i","d","d","e","n">>, <<"-">>, TString)>>))>>)

\* struct { FooBar string; APIUrl string; VeryLongName bool }
\*                                     (TestIndex_Replacer, IndexTestConfig)
CamelConfig ==
    Struct(<<Field(<<"F","o","o","B","a","r">>, NoTag, TString), Field(<<"A","P","I","U","r","l">>, NoTag, TString),
             Field(<<"V","e","r","y","L","o","n","g","N","a","m","e">>, NoTag, Scalar("bool"))>>)

\* struct { Port int `env:"port"`; Host string `env:"myHost"`; Item string `env:"IT[1]"`;
\*          Name string `env:"N[]"` }      explicit key tags
TagConfig ==
    Struct(<<Field(<<"P","o","r","t">>, <<"p","o","r","t">>, TInt), Field(<<"H","o","s","t">>, <<"m","y","H","o","s","t">>, TString),
             Field(<<"I","t","e","m">>, <<"I","T","[","1","]">>, TString), Field(<<"N","a","m","e">>, <<"N","[","]">>, TString)>>)

\* struct { Top struct { Nested []struct { Name string } `env:"-"` } }
\*                                                   (TestNewIndex_Error)
SkipSliceConfig ==
    Struct(<<Field(<<"T","o","p">>, NoTag,
                   Struct(<<Field(<<"N","e","s","t","e","d">>, <<"-">>,
                                  Collection("slice",
                                      Struct(<<Field(<<"N","a","m","e">>, NoTag, TString)>>)))>>))>>)

\* struct { Host string; List []string `env:"-"` }
SkipScalarSliceConfig ==
    Struct(<<Field(<<"H","o","s","t">>, NoTag, TString),
             Field(<<"L","i","s","t">>, <<"-">>, Collection("slice", TString))>>)

\* struct { Inner *struct { Host string; Deep struct { Port int } `env:"-"` } `env:"-"`;
\*          Name string }        exclude-self at the top, behind a pointer and nested
FlattenConfig ==
    Struct(<<Field(<<"I","n","n","e","r">>, <<"-">>,
                   Pointer(Struct(<<Field(<<"H","o","s","t">>, NoTag, TString),
                                    Field(<<"D","e","e","p">>, <<"-">>, Struct(<<Field(<<"P","o","r","t">>, NoTag, TInt)>>))>>))),
             Field(<<"N","a","m","e">>, NoTag, TString)>>)

\* struct { Host string; Route map[string]struct { Name string } `env:"-"` }
SkipMapConfig ==
    Struct(<<Field(<<"H","o","s","t">>, NoTag, TString),
             Field(<<"R","o","u","t","e">>, <<"-">>,
                   Collection("map", Struct(<<Field(<<"N","a","m","e">>, NoTag, TString)>>)))>>)

\* struct { Host string; WhiteList []net.IP `env:"-"` }
SkipTextSliceConfig ==
    Struct(<<Field(<<"H","o","s","t">>, NoTag, TString),
             Field(<<"W","h","i","t","e","L","i","s","t">>, <<"-">>, Collection("slice", TextScalar("slice")))>>)

\* struct { WL *[]net.IP; Set []*struct { Name string } }
\*                 a pointer to a collection and a collection of pointers
PtrCollectionConfig ==
    Struct(<<Field(<<"W","L">>, NoTag, Pointer(Collection("slice", TextScalar("slice")))),
             Field(<<"S","e","t">>, NoTag,
                   Collection("slice", Pointer(Struct(<<Field(<<"N","a","m","e">>, NoTag, TString)>>))))>>)

\* struct { AbC string; ABC string }     names that differ in case only
CaseConfig ==
    Struct(<<Field(<<"A","b","C">>, NoTag, TString), Field(<<"A","B","C">>, NoTag, TString)>>)

\* struct { Host string `default:"lh"`; Port int `default:"80"`;
\*          Sub2 *struct { Name string; Other string `default:"d2"` };
\*          Sub3 *struct { Name string `default:"d3"` } }      (TestLoadConfig)
LoadConfig ==
    Struct(<<FieldDefault(<<"H","o","s","t">>, NoTag, TString, <<"l","h">>),
             FieldDefault(<<"P","o","r","t">>, NoTag, TInt, <<"8","0">>),
             Field(<<"S","u","b","2">>, NoTag,
                   Pointer(Struct(<<Field(<<"N","a","m","e">>, NoTag, TString),
                                    FieldDefault(<<"O","t","h","e","r">>, NoTag, TString, <<"d","2">>)>>))),
             Field(<<"S","u","b","3">>, NoTag,
                   Pointer(Struct(<<FieldDefault(<<"N","a","m","e">>, NoTag, TString, <<"d","3">>)>>)))>>)

\* index.New[TestLoadConfig](nil): the index of the record type the callers
\* load; type and rename table being fixed, it is evaluated once
LoadConfigIndex == New(LoadConfig, <<>>)

\* index.New[T](d) as Load and env.Set call it
NewIndex(t, d) == IF t = LoadConfig /\ d = <<>> THEN LoadConfigIndex ELSE New(t, d)

RecordTypes == {FlatConfig, PointerConfig, CollectionConfig, SkipConfig, CamelConfig,
                TagConfig, SkipSliceConfig, SkipScalarSliceConfig, FlattenConfig,
                SkipMapConfig, SkipTextSliceConfig, CaseConfig, PtrCollectionConfig}

\* rename tables (index_test.go: {"API": "Api"}, {"Foo": "Baz"}), as lists of pairs
Replacers == {<<>>, << <<<<"A","P","I">>, <<"A","p","i">>>> >>, << <<<<"F","o","o">>, <<"B","a","z">>>> >>}

\* reflect: does the type contain a slice, array or map
RECURSIVE HasCollection(_)
HasCollection(t) ==
    IF t.kind = "ptr" THEN HasCollection(t.elem)
    ELSE IF t.kind \in CollectionKinds THEN TRUE
    ELSE IF t.kind = "struct"
         THEN \E i \in DOMAIN t.fields : HasCollection(t.fields[i].type)
         ELSE FALSE

\* ------------------------------------------------------------------------
\* Bounds
\* ------------------------------------------------------------------------

\* longest text put between the brackets of an observed key
MaxContentLen == 1

\* most variables in the process environment
MaxEnv == 2

\* most files in the file system
MaxFiles == 2

\* most flags bound
MaxFlags == 1

\* most setup steps (variables set, files written, flags bound) before a call
MaxSetup == 3

\* ------------------------------------------------------------------------
\* State
\* ------------------------------------------------------------------------

VARIABLES
    typ,      \* the record type index.New is called for
    repl,     \* the rename table index.New is called with
    idx,      \* the Index returned by index.New
    ierr,     \* the error returned by index.New
    ipc,      \* "start", "built" (New returned), "found" (a Find returned)
    fkey,     \* the index key the last observed key was written from
    fargs,    \* the bracket contents of the last observed key, left to right
    fname,    \* the last observed key, the argument of Find
    fres,     \* the result of the last Find: [path, ok]
    ires      \* the last Exists, PathExists, Keys or Items: [op, name, out]

indexVars == <<typ, repl, idx, ierr, ipc, fkey, fargs, fname, fres, ires>>

\* ------------------------------------------------------------------------
\* Observed keys: an index key with its placeholders filled in
\* ------------------------------------------------------------------------

ContentChars == {"1", "x"}

RECURSIVE SeqsUpTo(_, _)
SeqsUpTo(chars, n) ==
    IF n = 0 THEN {<<>>}
    ELSE LET shorter == SeqsUpTo(chars, n - 1)
         IN shorter \cup {Append(s, c) : s \in shorter, c \in chars}

Contents == SeqsUpTo(ContentChars, MaxContentLen)

\* the pieces of s between the occurrences of sep
RECURSIVE SplitOn(_, _)
SplitOn(s, sep) ==
    LET j == IndexFrom(s, sep, 1)
    IN IF j = 0 THEN <<s>>
       ELSE <<SubSeq(s, 1, j - 1)>> \o SplitOn(SubSeq(s, j + Len(sep), Len(s)), sep)

\* number of [] placeholders of s
Placeholders(s) == Len(SplitOn(s, EmptyBrackets)) - 1

\* parts[1] [args[1]] parts[2] [args[2]] ... : the i-th placeholder holds args[i]
RECURSIVE Interleave(_, _)
Interleave(parts, args) ==
    IF Len(parts) = 1 THEN parts[1]
    ELSE IF args = <<>> THEN parts[1] \o EmptyBrackets \o Interleave(Tail(parts), args)
    ELSE parts[1] \o LB \o args[1] \o RB \o Interleave(Tail(parts), Tail(args))

FillPlaceholders(s, args) == Interleave(SplitOn(s, EmptyBrackets), args)

UnknownKey == <<"N","O","_","S","U","C","H">>

\* ------------------------------------------------------------------------
\* Operations on the index
\* ------------------------------------------------------------------------

\* index.New[T](d)
Build ==
    /\ ipc = "start"
    /\ LET r == New(typ, repl)
       IN /\ idx' = r.m
          /\ ierr' = r.err
    /\ ipc' = "built"
    /\ UNCHANGED <<typ, repl, fkey, fargs, fname, fres, ires>>

\* Index.Find(name) for a key of the index with its placeholders filled in
FindKey ==
    /\ ipc \in {"built", "found"}
    /\ \E k \in DOMAIN idx :
         \E args \in [1..Placeholders(k) -> Contents] :
            /\ fkey' = k
            /\ fargs' = args
            /\ fname' = FillPlaceholders(k, args)
            /\ fres' = Find(idx, FillPlaceholders(k, args))
            /\ idx' = IndexAfterFind(idx, FillPlaceholders(k, args))
    /\ ipc' = "found"
    /\ UNCHANGED <<typ, repl, ierr, ires>>

\* Index.Find(name) for a key that is not in the index
FindUnknown ==
    /\ ipc \in {"built", "found"}
    /\ fkey' = <<>>
    /\ fargs' = <<>>
    /\ fname' = UnknownKey
    /\ fres' = Find(idx, UnknownKey)
    /\ idx' = IndexAfterFind(idx, UnknownKey)
    /\ ipc' = "found"
    /\ UNCHANGED <<typ, repl, ierr, ires>>

\* ------------------------------------------------------------------------
\* Values of a record type
\*   string, int : [k, n, s]      struct : tuple of its fields' values
\*   pointer     : <<>> (nil) or <<v>>
\* ------------------------------------------------------------------------

StrV(s) == [k |-> "string", n |-> 0, s |-> s]

IntV(n) == [k |-> "int", n |-> n, s |-> <<>>]

Digits == <<"0", "1", "2", "3", "4", "5", "6", "7", "8", "9">>

IsDigit(c) == c \in Range(Digits)

\* strconv: the value of a non-empty string of decimal digits
RECURSIVE DigitsValue(_)
DigitsValue(s) ==
    IF s = <<>> THEN 0
    ELSE 10 * DigitsValue(SubSeq(s, 1, Len(s) - 1)) + (PosIn(Digits, s[Len(s)]) - 1)

ParseInt(s) ==
    IF s # <<>> /\ \A i \in DOMAIN s : IsDigit(s[i])
    THEN [ok |-> TRUE, n |-> DigitsValue(s)]
    ELSE [ok |-> FALSE, n |-> 0]

\* *new(T)
RECURSIVE Zero(_)
Zero(t) ==
    IF t.kind = "ptr" THEN <<>>
    ELSE IF t.kind = "struct" THEN [i \in DOMAIN t.fields |-> Zero(t.fields[i].type)]
    ELSE IF t.kind = "int" THEN IntV(0)
    ELSE StrV(<<>>)

\* defaults.Set: every zero-valued scalar field with a default tag gets its
\* default; structs and non-nil pointers to structs are entered; a nil
\* pointer is left nil; a default that does not parse is ignored
RECURSIVE DefaultsSet(_, _)
DefaultsSet(v, t) ==
    IF t.kind = "struct"
    THEN [i \in DOMAIN t.fields |->
            LET f  == t.fields[i]
                ft == f.type
            IN IF ft.kind = "struct" THEN DefaultsSet(v[i], ft)
               ELSE IF ft.kind = "ptr"
                    THEN IF v[i] # <<>> /\ ft.elem.kind = "struct"
                         THEN <<DefaultsSet(v[i][1], ft.elem)>>
                         ELSE v[i]
               ELSE IF f.def = <<>> \/ v[i] # Zero(ft) THEN v[i]
               ELSE IF ft.kind = "int"
                    THEN IF ParseInt(f.def).ok THEN IntV(ParseInt(f.def).n) ELSE v[i]
               ELSE StrV(f.def)]
    ELSE v

TypeError(n) == [kind |-> "type", name |-> n]

\* ------------------------------------------------------------------------
\* github.com/zauberhaus/lookup: Set, Create and Exists on a record
\* ------------------------------------------------------------------------

\* the field of struct type t that the path segment seg names, 0 if none
FieldIndex(t, seg) ==
    LET hits == {i \in DOMAIN t.fields : ToLower(t.fields[i].name) = ToLower(seg)}
    IN IF hits = {} THEN 0 ELSE CHOOSE i \in hits : \A j \in hits : i <= j

\* a pointer allocated by lookup: the zero value with its declared defaults
Allocate(t) == DefaultsSet(Zero(t), t)

\* the coercion of lookup.Set: a string is parsed for an int field
Coerce(val, t, path) ==
    IF t.kind = "string"
    THEN IF val.k = "string" THEN [v |-> val, err |-> NoErr]
         ELSE [v |-> val, err |-> TypeError(path)]
    ELSE IF t.kind = "int"
    THEN IF val.k = "int" THEN [v |-> val, err |-> NoErr]
         ELSE IF ParseInt(val.s).ok THEN [v |-> IntV(ParseInt(val.s).n), err |-> NoErr]
         ELSE [v |-> val, err |-> TypeError(path)]
    ELSE [v |-> val, err |-> TypeError(path)]

\* lookup.Set below the value v of type t, along the segments segs
RECURSIVE LookupSetAt(_, _, _, _, _)
LookupSetAt(v, t, segs, val, path) ==
    IF t.kind = "ptr"
    THEN LET inner == IF v = <<>> THEN Allocate(t.elem) ELSE v[1]
             r     == LookupSetAt(inner, t.elem, segs, val, path)
         IN [v |-> IF r.err = NoErr THEN <<r.v>> ELSE v, err |-> r.err]
    ELSE IF segs = <<>>
    THEN IF t.kind = "struct" THEN [v |-> v, err |-> TypeError(path)]
         ELSE LET c == Coerce(val, t, path)
              IN [v |-> IF c.err = NoErr THEN c.v ELSE v, err |-> c.err]
    ELSE IF t.kind # "struct" THEN [v |-> v, err |-> NotFoundError(path)]
    ELSE LET i == FieldIndex(t, segs[1])
         IN IF i = 0 THEN [v |-> v, err |-> NotFoundError(path)]
            ELSE LET r == LookupSetAt(v[i], t.fields[i].type, Tail(segs), val, path)
                 IN [v |-> [v EXCEPT ![i] = r.v], err |-> r.err]

\* lookup.Set(record, path, value): [v, err]
LookupSet(v, t, path, val) == LookupSetAt(v, t, SplitOn(path, <<".">>), val, path)

\* lookup.Create below v: every nil pointer on the way is allocated
RECURSIVE LookupCreateAt(_, _, _, _)
LookupCreateAt(v, t, segs, path) ==
    IF t.kind = "ptr"
    THEN LET inner == IF v = <<>> THEN Allocate(t.elem) ELSE v[1]
             r     == LookupCreateAt(inner, t.elem, segs, path)
         IN [v |-> IF r.err = NoErr THEN <<r.v>> ELSE v, err |-> r.err]
    ELSE IF segs = <<>> THEN [v |-> v, err |-> NoErr]
    ELSE IF t.kind # "struct" THEN [v |-> v, err |-> NotFoundError(path)]
    ELSE LET i == FieldIndex(t, segs[1])
         IN IF i = 0 THEN [v |-> v, err |-> NotFoundError(path)]
            ELSE LET r == LookupCreateAt(v[i], t.fields[i].type, Tail(segs), path)
                 IN [v |-> [v EXCEPT ![i] = r.v], err |-> r.err]

\* lookup.Create(record, path): [v, err]
LookupCreate(v, t, path) == LookupCreateAt(v, t, SplitOn(path, <<".">>), path)

\* lookup.Exists below v: [ok, err]; a nil pointer is not there
RECURSIVE LookupExistsAt(_, _, _, _)
LookupExistsAt(v, t, segs, path) ==
    IF t.kind = "ptr"
    THEN IF v = <<>> THEN [ok |-> FALSE, err |-> NoErr]
         ELSE LookupExistsAt(v[1], t.elem, segs, path)
    ELSE IF segs = <<>> THEN [ok |-> TRUE, err |-> NoErr]
    ELSE IF t.kind # "struct" THEN [ok |-> FALSE, err |-> NotFoundError(path)]
    ELSE LET i == FieldIndex(t, segs[1])
         IN IF i = 0 THEN [ok |-> FALSE, err |-> NotFoundError(path)]
            ELSE LookupExistsAt(v[i], t.fields[i].type, Tail(segs), path)

\* lookup.Exists(record, path): [ok, err]
LookupExists(v, t, path) == LookupExistsAt(v, t, SplitOn(path, <<".">>), path)

\* ------------------------------------------------------------------------
\* File contents and the codecs (json.Unmarshal, yaml.Unmarshal)
\*   a document is an object (field number -> document), a scalar, null,
\*   or text that does not parse
\* ------------------------------------------------------------------------

DocObj(m) == [t |-> "obj", m |-> m, v |-> IntV(0)]

DocVal(v) == [t |-> "val", m |-> <<>>, v |-> v]

DocNull == [t |-> "null", m |-> <<>>, v |-> IntV(0)]

DocMalformed == [t |-> "malformed", m |-> <<>>, v |-> IntV(0)]

DecodeError == [kind |-> "decode", name |-> <<>>]

\* the document cannot be decoded into a value of type t
RECURSIVE Undecodable(_, _)
Undecodable(doc, t) ==
    IF doc.t = "malformed" THEN TRUE
    ELSE IF doc.t = "null" THEN FALSE
    ELSE IF t.kind = "ptr" THEN Undecodable(doc, t.elem)
    ELSE IF t.kind = "struct"
         THEN \/ doc.t # "obj"
              \/ \E i \in DOMAIN doc.m :
                    i \notin DOMAIN t.fields \/ Undecodable(doc.m[i], t.fields[i].type)
    ELSE doc.t # "val" \/ doc.v.k # t.kind

\* decoding into an existing value: only what the document names is written;
\* a nil pointer is allocated as a zero value, an existing one is reused
RECURSIVE Decode(_, _, _)
Decode(doc, v, t) ==
    IF t.kind = "ptr"
    THEN IF doc.t = "null" THEN <<>>
         ELSE <<Decode(doc, IF v = <<>> THEN Zero(t.elem) ELSE v[1], t.elem)>>
    ELSE IF doc.t = "null" THEN v
    ELSE IF t.kind = "struct"
         THEN [i \in DOMAIN t.fields |->
                 IF i \in DOMAIN doc.m THEN Decode(doc.m[i], v[i], t.fields[i].type)
                 ELSE v[i]]
    ELSE doc.v

\* json.Unmarshal(data, cfg) / yaml.Unmarshal(data, cfg): [v, err]
Unmarshal(doc, v, t) ==
    IF Undecodable(doc, t) THEN [v |-> v, err |-> DecodeError]
    ELSE [v |-> Decode(doc, v, t), err |-> NoErr]

\* ------------------------------------------------------------------------
\* config: file types and file discovery
\* ------------------------------------------------------------------------

UnknownFileType == 0

JSON == 1

YAML == 2

Extension(n, ft) == [Name |-> n, FileType |-> ft]

\* the package-level extension table
extensions == <<Extension(<<".","j","s","o","n">>, JSON), Extension(<<".","y","a","m","l">>, YAML), Extension(<<".","y","m","l">>, YAML)>>

\* GetFileType(name, ext...): the first extension that is a suffix of name
RECURSIVE FirstSuffixType(_, _)
FirstSuffixType(name, ext) ==
    IF ext = <<>> THEN UnknownFileType
    ELSE IF HasSuffix(name, ext[1].Name) THEN ext[1].FileType
    ELSE FirstSuffixType(name, Tail(ext))

GetFileType(name, ext) == FirstSuffixType(name, IF ext = <<>> THEN extensions ELSE ext)

TraversalError(n) == [kind |-> "traversal", name |-> n]

UnknownFileTypeError(n) == [kind |-> "unknownfiletype", name |-> n]

ReadError(n) == [kind |-> "notexist", name |-> n]

\* sort.Strings sorting in descending order
RECURSIVE SortStringsDescending(_)
SortStringsDescending(set) ==
    IF set = {} THEN <<>>
    ELSE LET most == CHOOSE x \in set : \A y \in set : x = y \/ StrLess(y, x)
         IN <<most>> \o SortStringsDescending(set \ {most})

\* the sequence of the elements of a set of strings in ascending byte order
RECURSIVE SortStrings(_)
SortStrings(set) ==
    IF set = {} THEN <<>>
    ELSE LET least == CHOOSE x \in set : \A y \in set : x = y \/ StrLess(x, y)
         IN <<least>> \o SortStrings(set \ {least})

\* os.Getenv(name) on the process environment, a list of NAME=VALUE strings
RECURSIVE Getenv(_, _)
Getenv(environ, name) ==
    IF environ = <<>> THEN <<>>
    ELSE IF HasPrefix(environ[1], name \o <<"=">>)
         THEN SubSeq(environ[1], Len(name) + 2, Len(environ[1]))
         ELSE Getenv(Tail(environ), name)

\* the working directory and the home directory of the process
Cwd == <<"/","w">>

Home == <<"/","h">>

\* os.ReadDir(dir): the names of the files of the directory, sorted by name;
\* files is the file system, a function from absolute file paths to contents
ReadDir(files, dir) ==
    SortStrings({SubSeq(f, Len(dir) + 2, Len(f)) :
                    f \in {g \in DOMAIN files :
                              /\ HasPrefix(g, dir \o <<"/">>)
                              /\ ~Contains(SubSeq(g, Len(dir) + 2, Len(g)), <<"/">>)}})

\* filepath.Ext: the suffix of the name that starts at its last dot
FileExt(filename) ==
    LET dots == {i \in DOMAIN filename : filename[i] = "."}
    IN IF dots = {} THEN <<>>
       ELSE SubSeq(filename, CHOOSE i \in dots : \A j \in dots : i >= j, Len(filename))

\* strings.TrimSuffix
TrimSuffix(s, suf) == IF HasSuffix(s, suf) THEN SubSeq(s, 1, Len(s) - Len(suf)) ELSE s

\* the loop over the entries of one directory in findConfigFile: the first
\* entry named <name><ext> with a known extension, <<>> if there is none
RECURSIVE FirstMatchingEntry(_, _, _)
FirstMatchingEntry(entries, name, ext) ==
    IF entries = <<>> THEN <<>>
    ELSE LET filename == entries[1]
             skipped  == \/ Contains(filename, <<".", ".">>)
                         \/ Len(filename) < 4
                         \/ filename[1] = "."
                         \/ FileExt(filename) = <<>>
                         \/ TrimSuffix(filename, FileExt(filename)) # name
                         \/ GetFileType(filename, ext) = UnknownFileType
         IN IF skipped THEN FirstMatchingEntry(Tail(entries), name, ext) ELSE filename

\* the loop over the search paths taken from the last path to the first
RECURSIVE SearchPathsLastFirst(_, _, _, _)
SearchPathsLastFirst(files, paths, name, ext) ==
    IF paths = <<>> THEN [name |-> <<>>, ft |-> UnknownFileType, err |-> NoErr]
    ELSE LET last == paths[Len(paths)]
             hit  == FirstMatchingEntry(ReadDir(files, last), name, ext)
         IN IF hit = <<>>
            THEN SearchPathsLastFirst(files, SubSeq(paths, 1, Len(paths) - 1), name, ext)
            ELSE [name |-> last \o <<"/">> \o hit,
                  ft   |-> GetFileType(hit, ext),
                  err  |-> NoErr]

\* the loop over the search paths in findConfigFile
RECURSIVE SearchPaths(_, _, _, _)
SearchPaths(files, paths, name, ext) ==
    IF paths = <<>> THEN [name |-> <<>>, ft |-> UnknownFileType, err |-> NoErr]
    ELSE LET hit == FirstMatchingEntry(ReadDir(files, paths[1]), name, ext)
         IN IF hit = <<>> THEN SearchPaths(files, Tail(paths), name, ext)
            ELSE [name |-> paths[1] \o <<"/">> \o hit,
                  ft   |-> GetFileType(hit, ext),
                  err  |-> NoErr]

DefaultName == <<"c","o","n","f","i","g">>

\* findConfigFile(o): [name, ft, err]; it also sets o.Name and o.Extensions
\* when they are empty (see OptionsAfterFind)
findConfigFile(o, environ, files) ==
    LET ext  == IF o.Extensions = <<>> THEN extensions ELSE o.Extensions
        name == IF o.Name = <<>> THEN DefaultName ELSE o.Name
        tmp  == Getenv(environ, <<"C","O","N","F","I","G">>)
    IN IF tmp # <<>>
       THEN IF Contains(tmp, <<".", ".">>)
            THEN [name |-> <<>>, ft |-> UnknownFileType, err |-> TraversalError(tmp)]
            ELSE IF GetFileType(tmp, ext) = UnknownFileType
            THEN [name |-> <<>>, ft |-> UnknownFileType, err |-> UnknownFileTypeError(tmp)]
            ELSE [name |-> tmp, ft |-> GetFileType(tmp, ext), err |-> NoErr]
       ELSE SearchPaths(files, o.Paths \o <<Cwd, Home>>, name, ext)

\* the options as findConfigFile leaves them
OptionsAfterFind(o) ==
    [o EXCEPT !.Extensions = IF o.Extensions = <<>> THEN extensions ELSE o.Extensions,
              !.Name = IF o.Name = <<>> THEN DefaultName ELSE o.Name]

\* ------------------------------------------------------------------------
\* pkg/env: the environment layer
\* ------------------------------------------------------------------------

\* env.WithName(val): the prefix
WithName(val) ==
    IF Len(val) # 0
    THEN ReplaceAll(ReplaceAll(ToUpper(val), <<".">>, <<"_">>), <<"-">>, <<"_">>) \o <<"_">>
    ELSE <<>>

KeyCutset == {"_", " ", "\n", "\r", "\t"}

ValueCutset == {" ", "\n", "\r", "\t"}

\* the first loop without the test of the prefix
RECURSIVE EnvCollectNoPrefixCheck(_, _, _, _, _, _)
EnvCollectNoPrefixCheck(environ, i, m, prefix, strict, index) ==
    IF i > Len(environ) THEN [m |-> m, err |-> NoErr]
    ELSE
      LET envVar == environ[i]
          eq     == IndexFrom(envVar, <<"=">>, 1)
          key0   == SubSeq(envVar, 1, eq - 1)
          value  == SubSeq(envVar, eq + 1, Len(envVar))
          key    == ToUpper(Trim(IF Len(prefix) > 0 THEN TrimPrefix(key0, prefix) ELSE key0,
                                 KeyCutset))
          found  == Find(index, key)
      IN IF eq = 0 THEN EnvCollectNoPrefixCheck(environ, i + 1, m, prefix, strict, index)
         ELSE IF ~found.ok
              THEN IF ~strict
                   THEN EnvCollectNoPrefixCheck(environ, i + 1, m, prefix, strict, index)
                   ELSE [m |-> m, err |-> NotFoundError(key)]
         ELSE EnvCollectNoPrefixCheck(environ, i + 1,
                                      MapPut(m, found.path, Trim(value, ValueCutset)),
                                      prefix, strict, index)

\* the first loop without the test of strict: an unknown key is skipped
RECURSIVE EnvCollectLenient(_, _, _, _, _, _)
EnvCollectLenient(environ, i, m, prefix, strict, index) ==
    IF i > Len(environ) THEN [m |-> m, err |-> NoErr]
    ELSE
      LET envVar == environ[i]
          eq     == IndexFrom(envVar, <<"=">>, 1)
          key0   == SubSeq(envVar, 1, eq - 1)
          value  == SubSeq(envVar, eq + 1, Len(envVar))
          key    == ToUpper(Trim(IF Len(prefix) > 0 THEN TrimPrefix(key0, prefix) ELSE key0,
                                 KeyCutset))
          found  == Find(index, key)
      IN IF eq = 0 THEN EnvCollectLenient(environ, i + 1, m, prefix, strict, index)
         ELSE IF Len(prefix) > 0 /\ ~HasPrefix(key0, prefix)
              THEN EnvCollectLenient(environ, i + 1, m, prefix, strict, index)
         ELSE IF ~found.ok
              THEN EnvCollectLenient(environ, i + 1, m, prefix, strict, index)
         ELSE EnvCollectLenient(environ, i + 1,
                                MapPut(m, found.path, Trim(value, ValueCutset)),
                                prefix, strict, index)

\* the first loop of env.Set, from variable i on: the map m from resolved
\* paths to values; a later variable overwrites an earlier one
RECURSIVE EnvCollect(_, _, _, _, _, _)
EnvCollect(environ, i, m, prefix, strict, index) ==
    IF i > Len(environ) THEN [m |-> m, err |-> NoErr]
    ELSE
      LET envVar == environ[i]
          eq     == IndexFrom(envVar, <<"=">>, 1)
          key0   == SubSeq(envVar, 1, eq - 1)
          value  == SubSeq(envVar, eq + 1, Len(envVar))
          key    == ToUpper(Trim(IF Len(prefix) > 0 THEN TrimPrefix(key0, prefix) ELSE key0,
                                 KeyCutset))
          found  == Find(index, key)
      IN IF eq = 0 THEN EnvCollect(environ, i + 1, m, prefix, strict, index)
         ELSE IF Len(prefix) > 0 /\ ~HasPrefix(key0, prefix)
              THEN EnvCollect(environ, i + 1, m, prefix, strict, index)
         ELSE IF ~found.ok
              THEN IF ~strict THEN EnvCollect(environ, i + 1, m, prefix, strict, index)
                   ELSE [m |-> m, err |-> NotFoundError(key)]
         ELSE EnvCollect(environ, i + 1, MapPut(m, found.path, Trim(value, ValueCutset)),
                         prefix, strict, index)

\* the second loop passing over every error of lookup.Set when not strict
RECURSIVE EnvApplyLenient(_, _, _, _, _, _)
EnvApplyLenient(v, t, keys, m, strict, calls) ==
    IF keys = <<>> THEN [v |-> v, err |-> NoErr, calls |-> calls]
    ELSE LET k == keys[1]
             AfterSet(r) ==
                 IF r.err # NoErr /\ strict
                 THEN [v |-> r.v, err |-> r.err, calls |-> Append(calls, k)]
                 ELSE EnvApplyLenient(r.v, t, Tail(keys), m, strict, Append(calls, k))
         IN AfterSet(LookupSet(v, t, k, StrV(m[k])))

\* the second loop of env.Set over the sorted keys: [v, err, calls], calls
\* being the paths lookup.Set was called with, in order
RECURSIVE EnvApply(_, _, _, _, _, _)
EnvApply(v, t, keys, m, strict, calls) ==
    IF keys = <<>> THEN [v |-> v, err |-> NoErr, calls |-> calls]
    ELSE LET k == keys[1]
             \* r: what lookup.Set(value, k, v) returned
             AfterSet(r) ==
                 IF r.err # NoErr
                 THEN IF r.err.kind = "notfound" /\ ~strict
                      THEN EnvApply(r.v, t, Tail(keys), m, strict, Append(calls, k))
                      ELSE [v |-> r.v, err |-> r.err, calls |-> Append(calls, k)]
                 ELSE EnvApply(r.v, t, Tail(keys), m, strict, Append(calls, k))
         IN AfterSet(LookupSet(v, t, k, StrV(m[k])))

\* env.Set applying what the first loop collected before it returns the
\* first loop's error
EnvSetApplyThenFail(v, t, prefix, strict, index0, environ) ==
    LET Applied(a) ==
            [v     |-> a.v,
             ret   |-> IF a.err = NoErr THEN <<a.v>> ELSE <<>>,
             err   |-> a.err,
             calls |-> a.calls]
        Failed(c, a) == [v |-> a.v, ret |-> <<>>, err |-> c.err, calls |-> a.calls]
        Collected(c) ==
            IF c.err # NoErr
            THEN Failed(c, EnvApply(v, t, SortStrings(DOMAIN c.m), c.m, strict, <<>>))
            ELSE Applied(EnvApply(v, t, SortStrings(DOMAIN c.m), c.m, strict, <<>>))
        Indexed(built) ==
            IF built.err # NoErr
            THEN [v |-> v, ret |-> <<>>, err |-> built.err, calls |-> <<>>]
            ELSE Collected(EnvCollect(environ, 1, EmptyIndex, prefix, strict, built.m))
    IN Indexed(IF DOMAIN index0 = {} THEN NewIndex(t, <<>>)
               ELSE [m |-> index0, err |-> NoErr])

\* env.Set(value, WithName(name), WithStrict(strict), WithIndex(index)) on a
\* pointer to the record v of type t:
\*   v     the record after the call      ret   the returned pointer
\*   err   the returned error             calls the lookup.Set calls made
EnvSet(v, t, prefix, strict, index0, environ) ==
    LET \* a: what the second loop left
        Applied(a) ==
            [v     |-> a.v,
             ret   |-> IF a.err = NoErr THEN <<a.v>> ELSE <<>>,
             err   |-> a.err,
             calls |-> a.calls]
        \* c: what the first loop collected
        Collected(c) ==
            IF c.err # NoErr
            THEN [v |-> v, ret |-> <<>>, err |-> c.err, calls |-> <<>>]
            ELSE Applied(EnvApply(v, t, SortStrings(DOMAIN c.m), c.m, strict, <<>>))
        \* built: o.Index, built when none was given
        Indexed(built) ==
            IF built.err # NoErr
            THEN [v |-> v, ret |-> <<>>, err |-> built.err, calls |-> <<>>]
            ELSE Collected(EnvCollect(environ, 1, EmptyIndex, prefix, strict, built.m))
    IN Indexed(IF DOMAIN index0 = {} THEN NewIndex(t, <<>>)
               ELSE [m |-> index0, err |-> NoErr])

\* ------------------------------------------------------------------------
\* pkg/flags: the flag layer
\* ------------------------------------------------------------------------

\* a pflag.Flag with its flag set: name, value type, value, Changed
PFlag(n, ty, val, ch) == [name |-> n, type |-> ty, value |-> val, changed |-> ch]

\* Flag.getValue: the typed accessor chosen by the flag's type
getValue(f) == [v |-> f.value, err |-> NoErr]

\* SetFlags without the test of Changed: every bound flag is written
RECURSIVE SetFlagsUnchanged(_, _, _, _)
SetFlagsUnchanged(v, t, flags, order) ==
    IF order = <<>> THEN [v |-> v, err |-> NoErr]
    ELSE LET k   == order[1]
             val == getValue(flags[k])
             AfterSet(r) ==
                 IF r.err # NoErr THEN [v |-> r.v, err |-> r.err]
                 ELSE SetFlagsUnchanged(r.v, t, flags, Tail(order))
         IN IF val.err # NoErr THEN [v |-> v, err |-> val.err]
            ELSE AfterSet(LookupSet(v, t, k, val.v))

\* SetFlags(value, f): the bound flags are visited in the order given (the
\* iteration order of a Go map is not fixed): [v, err]
RECURSIVE SetFlags(_, _, _, _)
SetFlags(v, t, flags, order) ==
    IF order = <<>> THEN [v |-> v, err |-> NoErr]
    ELSE LET k   == order[1]
             val == getValue(flags[k])
             \* r: what lookup.Set(value, k, val) returned
             AfterSet(r) ==
                 IF r.err # NoErr THEN [v |-> r.v, err |-> r.err]
                 ELSE SetFlags(r.v, t, flags, Tail(order))
         IN IF ~flags[k].changed THEN SetFlags(v, t, flags, Tail(order))
            ELSE IF val.err # NoErr THEN [v |-> v, err |-> val.err]
            ELSE AfterSet(LookupSet(v, t, k, val.v))

\* ------------------------------------------------------------------------
\* config.Load
\* ------------------------------------------------------------------------

\* ConfigOptions; UseFlags says that o.Flags is not nil, Flags is what its
\* Bind callback binds
ConfigOptions(file, name, strict, useFlags, flags) ==
    [File |-> file, FileType |-> UnknownFileType, Name |-> name, Paths |-> <<>>,
     Strict |-> strict, Index |-> EmptyIndex, UseFlags |-> useFlags, Flags |-> flags,
     Extensions |-> <<>>, Replacer |-> <<>>]

\* config.WithExtensions
WithExtensions(o, ext) == [o EXCEPT !.Extensions = ext]

\* config.WithPaths
WithPaths(o, paths) == [o EXCEPT !.Paths = paths]

\* config.WithIndex
WithIndex(o, index) == [o EXCEPT !.Index = index]

\* what Load hands back: the record pointer (<<>> is nil), the file path and
\* the error; and what it did on the way: the options after file resolution,
\* whether it came to the environment and flag layers, whether the
\* environment layer ran and the lookup.Set calls it made, the record after
\* the first deserialization, the optional paths found in it, whether the
\* record was rebuilt, and the record the file layer handed to the layers
\* after it
LoadReturn(cfg, file, err, o, trace) ==
    [cfg |-> cfg, file |-> file, err |-> err, o |-> o,
     layers |-> trace.layers, envRan |-> trace.envRan, calls |-> trace.calls,
     first |-> trace.first, changed |-> trace.changed, reloaded |-> trace.reloaded,
     filed |-> trace.filed]

NoTrace == [layers |-> FALSE, envRan |-> FALSE, calls |-> <<>>, first |-> <<>>,
            changed |-> {}, reloaded |-> FALSE, filed |-> <<>>]

\* return cfg, file, err: the record as far as it was filled
LoadFailPartial(cfg, file, err, o, trace) == LoadReturn(<<cfg>>, file, err, o, trace)

\* return nil, file, err
LoadFail(cfg, file, err, o, trace) == LoadReturn(<<>>, file, err, o, trace)

\* the file resolution without the check of the explicit path for ".."
ResolveFileUnchecked(o, environ, files) ==
    IF o.File = <<>>
    THEN LET Found(r) ==
                 [o   |-> [OptionsAfterFind(o) EXCEPT !.File = r.name, !.FileType = r.ft],
                  err |-> r.err]
         IN Found(findConfigFile(o, environ, files))
    ELSE [o |-> [o EXCEPT !.FileType = GetFileType(o.File, extensions)], err |-> NoErr]

\* the file resolution of Load (lines 46-61): [o, err]
ResolveFile(o, environ, files) ==
    IF o.File = <<>>
    THEN LET \* r: what findConfigFile returned
             Found(r) ==
                 [o   |-> [OptionsAfterFind(o) EXCEPT !.File = r.name, !.FileType = r.ft],
                  err |-> r.err]
         IN Found(findConfigFile(o, environ, files))
    ELSE IF Contains(o.File, <<".", ".">>)
         THEN [o |-> o, err |-> TraversalError(o.File)]
         ELSE [o |-> [o EXCEPT !.FileType = GetFileType(o.File, extensions)], err |-> NoErr]

\* the Paths of the Optional entries of the index (lines 80-86)
OptionalPaths(index) == {index[k].Path : k \in {x \in DOMAIN index : index[x].Optional}}

\* lookup.Create for each path, in the order given
RECURSIVE CreateAll(_, _, _)
CreateAll(v, t, paths) ==
    IF paths = <<>> THEN [v |-> v, err |-> NoErr]
    ELSE LET AfterCreate(r) == IF r.err # NoErr THEN r ELSE CreateAll(r.v, t, Tail(paths))
         IN AfterCreate(LookupCreate(v, t, paths[1]))

\* the optional paths that exist in the record after the first
\* deserialization (lines 109-120)
ChangedPaths(cfg, t, optional) == {v \in optional : LookupExists(cfg, t, v).ok}

\* the reload step without the loop over changed: nothing is created
PathsToCreateNone(cfg, t, optional) == {}

\* the reload step looping over optional instead of changed
PathsToCreateAll(cfg, t, optional) == optional

\* the paths the reload step creates on the fresh record (lines 132-137)
PathsToCreate(cfg, t, optional) == ChangedPaths(cfg, t, optional)

\* the file layer of Load (lines 88-155): [cfg, err, file, first, changed, reloaded]
\* file is the file path returned with an error
LoadFile(cfg, t, o, files, optional) ==
    LET none == [cfg |-> cfg, err |-> NoErr, file |-> o.File, first |-> <<>>,
                 changed |-> {}, reloaded |-> FALSE]
        data == files[o.File]
        \* u2: the second deserialization, into the fresh record
        Reloaded(pass1, u2) ==
            IF u2.err # NoErr THEN [pass1 EXCEPT !.err = u2.err]
            ELSE [pass1 EXCEPT !.cfg = u2.v, !.reloaded = TRUE]
        \* cr: the fresh record with the changed paths created
        Created(pass1, cr) ==
            IF cr.err # NoErr THEN [pass1 EXCEPT !.err = cr.err, !.file = <<>>]
            ELSE Reloaded(pass1, Unmarshal(data, cr.v, t))
        \* changed, lookErr: what lookup.Exists said of the optional paths
        Checked(u1, changed, lookErr) ==
            LET pass1 == [none EXCEPT !.cfg = u1.v, !.first = <<u1.v>>,
                                      !.changed = changed]
            IN IF lookErr # {}
               THEN [none EXCEPT !.err = CHOOSE e \in lookErr : TRUE, !.file = <<>>]
               ELSE IF changed = {} THEN pass1
               ELSE Created(pass1,
                            CreateAll(DefaultsSet(Zero(t), t), t,
                                      SortStrings(PathsToCreate(u1.v, t, optional))))
        \* u1: the first deserialization
        Decoded(u1) ==
            IF u1.err # NoErr THEN [none EXCEPT !.err = u1.err]
            ELSE Checked(u1, ChangedPaths(u1.v, t, optional),
                         {LookupExists(u1.v, t, v).err : v \in optional} \ {NoErr})
    IN IF Len(o.File) = 0 THEN none
       ELSE IF o.File \notin DOMAIN files THEN [none EXCEPT !.err = ReadError(o.File)]
       ELSE IF o.FileType \notin {JSON, YAML}
            THEN [none EXCEPT !.err = UnknownFileTypeError(o.File)]
       ELSE Decoded(Unmarshal(data, cfg, t))

\* the layers in the wrong order: the flags first, the environment after
LoadLayersFlagsFirst(cfg, t, o, environ, order, trace) ==
    LET Traced(e) == [trace EXCEPT !.layers = TRUE, !.envRan = Len(o.Name) > 0,
                                   !.calls = e.calls]
        AfterEnv(e) ==
            IF e.err # NoErr THEN LoadFail(e.v, o.File, e.err, o, Traced(e))
            ELSE LoadReturn(<<e.v>>, o.File, NoErr, o, Traced(e))
        AfterFlags(f) ==
            IF f.err # NoErr THEN LoadFail(f.v, o.File, f.err, o, [trace EXCEPT !.layers = TRUE])
            ELSE AfterEnv(IF Len(o.Name) > 0
                          THEN EnvSet(f.v, t, WithName(o.Name), o.Strict, o.Index, environ)
                          ELSE [v |-> f.v, ret |-> <<f.v>>, err |-> NoErr, calls |-> <<>>])
    IN AfterFlags(IF o.UseFlags THEN SetFlags(cfg, t, o.Flags, order)
                  ELSE [v |-> cfg, err |-> NoErr])

\* the environment and flag layers of Load (lines 157-171)
LoadLayers(cfg, t, o, environ, order, trace) ==
    LET Traced(e) == [trace EXCEPT !.layers = TRUE, !.envRan = Len(o.Name) > 0,
                                   !.calls = e.calls]
        \* f: what flags.SetFlags left
        AfterFlags(e, f) ==
            IF f.err # NoErr THEN LoadFail(f.v, o.File, f.err, o, Traced(e))
            ELSE LoadReturn(<<f.v>>, o.File, NoErr, o, Traced(e))
        \* e: what env.Set left
        AfterEnv(e) ==
            IF e.err # NoErr THEN LoadFail(e.v, o.File, e.err, o, Traced(e))
            ELSE AfterFlags(e, IF o.UseFlags THEN SetFlags(e.v, t, o.Flags, order)
                               ELSE [v |-> e.v, err |-> NoErr])
    IN AfterEnv(IF Len(o.Name) > 0
                THEN EnvSet(cfg, t, WithName(o.Name), o.Strict, o.Index, environ)
                ELSE [v |-> cfg, ret |-> <<cfg>>, err |-> NoErr, calls |-> <<>>])

\* Load[*T](options...) for the record type t; order is the order in which
\* SetFlags visits the bound flags
Load(t, o0, environ, files, order) ==
    LET cfg0 == DefaultsSet(Zero(t), t)
        Traced(lf) == [NoTrace EXCEPT !.first = lf.first, !.changed = lf.changed,
                                      !.reloaded = lf.reloaded,
                                      !.filed = IF lf.err = NoErr THEN <<lf.cfg>> ELSE <<>>]
        \* lf: what the file layer left
        AfterFile(o, lf) ==
            IF lf.err # NoErr THEN LoadFail(lf.cfg, lf.file, lf.err, o, Traced(lf))
            ELSE LoadLayers(lf.cfg, t, o, environ, order, Traced(lf))
        \* built: o.Index, built when none was given
        Indexed(o1, built) ==
            IF built.err # NoErr THEN LoadFail(cfg0, <<>>, built.err, o1, NoTrace)
            ELSE LET o == [o1 EXCEPT !.Index = built.m]
                 IN AfterFile(o, LoadFile(cfg0, t, o, files, OptionalPaths(o.Index)))
        \* rf: the options after the file resolution
        Resolved(rf) ==
            IF rf.err # NoErr THEN LoadFail(<<>>, <<>>, rf.err, rf.o, NoTrace)
            ELSE Indexed(rf.o, IF DOMAIN rf.o.Index = {} THEN NewIndex(t, rf.o.Replacer)
                               ELSE [m |-> rf.o.Index, err |-> NoErr])
    IN Resolved(ResolveFile(o0, environ, files))

\* ------------------------------------------------------------------------
\* The program that is loaded: its record type, and what its callers set up
\* ------------------------------------------------------------------------

\* file contents: {"host": "fh", "port": 90}, {"sub2": {"name": "fn"}},
\* {"sub2": {"other": "fo"}, "sub3": {}} and a text that does not parse
Documents ==
    { DocObj(1 :> DocVal(StrV(<<"f","h">>)) @@ 2 :> DocVal(IntV(90))),
      DocObj(3 :> DocObj(1 :> DocVal(StrV(<<"f","n">>)))),
      DocObj(3 :> DocObj(2 :> DocVal(StrV(<<"f","o">>))) @@ 4 :> DocObj(<<>>)),
      DocMalformed }

\* the files the callers write: every document as /w/app.json, and one
\* document as a file in the home directory, as the file found under the
\* default name, as a file of unknown type and as a file with a suffix of
\* the callers' own
FileWrites ==
    {<<<<"/","w","/","a","p","p",".","j","s","o","n">>, d>> : d \in Documents}
    \cup {<<f, DocObj(1 :> DocVal(StrV(<<"f","h">>)) @@ 2 :> DocVal(IntV(90)))>> :
             f \in {<<"/","h","/","a","p","p",".","y","a","m","l">>, <<"/","w","/","c","o","n","f","i","g",".","y","m","l">>, <<"/","w","/","a","p","p",".","t","x","t">>, <<"/","w","/","a","p","p",".","c","o","n","f">>}}

\* the paths the callers pass to WithFile: a file they may have written, a
\* file of unknown type, a file that is not there, a path with ".."
ExplicitFiles == {<<"/","w","/","a","p","p",".","j","s","o","n">>, <<"/","w","/","a","p","p",".","t","x","t">>, <<"/","w","/","n","o",".","j","s","o","n">>, <<"/","w","/",".",".","/","a","p","p",".","j","s","o","n">>}

\* the names passed to WithName
Names == {<<>>, <<"a","p","p">>}

\* the names passed to env.WithName of a direct env.Set: those, and one with
\* a character the prefix rewrites
EnvSetNames == Names \cup {<<"a","p","p","-">>}

\* the variables the callers put into the process environment
EnvVars ==
    { <<"A","P","P","_","P","O","R","T","=","9","9">>, <<"A","P","P","_","P","O","R","T","=","z","z">>, <<"A","P","P","_","S","U","B","2","_","N","A","M","E","="," ","e","n">>, <<"A","P","P","_","N","O","P","E","=","1">>,
      <<"A","P","P","_","_","p","o","r","t","_","=","7","7">>, <<"C","O","N","F","I","G","_","P","O","R","T","=","4","4">>, <<"C","O","N","F","I","G","=","/","h","/","a","p","p",".","y","a","m","l">>,
      <<"C","O","N","F","I","G","=","/",".",".","/","a",".","y","m","l">>,
      <<"A","P","P","_","M","Y","_","V","A","R","=","v","a","l">>, <<"a","p","p","_","P","O","R","T","=","5","5">> }

EnvName(envVar) == SubSeq(envVar, 1, IndexFrom(envVar, <<"=">>, 1) - 1)

\* the bindings the callers make, target and flag: --port (int, set to 12)
\* and --port (int, not set, default 11) to Port, --port (string, set to
\* "zz") to Port, --name (string, set to "gn") to Sub2.Name and to Nope
Bindings ==
    { <<<<"P","o","r","t">>, PFlag(<<"p","o","r","t">>, "int", IntV(12), TRUE)>>,
      <<<<"P","o","r","t">>, PFlag(<<"p","o","r","t">>, "int", IntV(11), FALSE)>>,
      <<<<"P","o","r","t">>, PFlag(<<"p","o","r","t">>, "string", StrV(<<"z","z">>), TRUE)>>,
      <<<<"S","u","b","2",".","N","a","m","e">>, PFlag(<<"n","a","m","e">>, "string", StrV(<<"g","n">>), TRUE)>>,
      <<<<"N","o","p","e">>, PFlag(<<"n","a","m","e">>, "string", StrV(<<"g","n">>), TRUE)>> }

\* the extension list the callers pass to WithExtensions (config_test.go,
\* "load with other extensions")
ConfExtensions == <<Extension(<<".","c","o","n","f">>, YAML)>>

\* the calls of Load the callers make: for LoadConfig every combination of
\* WithName and Strict without WithFile and with the file they may have
\* written, and a call with each of the other files; with WithExtensions a
\* call without WithFile, one with a file of a configured suffix and one
\* with a file of a suffix that is not configured; a call with WithPaths
\* naming the home directory (config_test.go, "load from yaml file in custom
\* search path"); the bare call for a
\* type whose index cannot be built (config_test.go, "error on index
\* creation failure")
LoadCalls ==
    {[t |-> LoadConfig, file |-> f, name |-> n, strict |-> st, ext |-> <<>>, paths |-> <<>>] :
        f \in {<<>>, <<"/","w","/","a","p","p",".","j","s","o","n">>}, n \in Names, st \in BOOLEAN}
    \cup {[t |-> LoadConfig, file |-> f, name |-> <<"a","p","p">>, strict |-> FALSE, ext |-> <<>>, paths |-> <<>>] :
             f \in ExplicitFiles}
    \cup {[t |-> LoadConfig, file |-> f, name |-> <<"a","p","p">>, strict |-> FALSE,
           ext |-> ConfExtensions, paths |-> <<>>] :
             f \in {<<>>, <<"/","w","/","a","p","p",".","c","o","n","f">>, <<"/","w","/","a","p","p",".","j","s","o","n">>}}
    \cup {[t |-> LoadConfig, file |-> <<>>, name |-> <<"a","p","p">>, strict |-> FALSE,
           ext |-> <<>>, paths |-> <<Home>>]}
    \cup {[t |-> SkipSliceConfig, file |-> <<>>, name |-> <<>>, strict |-> FALSE,
           ext |-> <<>>, paths |-> <<>>]}

VARIABLES
    environ,  \* the process environment: a list of NAME=VALUE strings
    fsys,     \* the file system: absolute file path -> contents
    bound,    \* Flags.flags: lower-case target path -> bound flag
    lpc,      \* "setup", "loaded" (Load returned), "envset" (env.Set returned)
    lcall,    \* the last call of Load: [t, file, name, strict]
    lres,     \* what the last Load returned and did (LoadReturn)
    eres      \* what the last direct env.Set returned and did

loadVars == <<environ, fsys, bound, lpc, lcall, lres, eres>>

VARIABLES
    flist,    \* the Flags the binding operations are called on: [flags, dict]
    bcall,    \* the last binding call: [op, cmd, target, flag, before, n]
    berr      \* the error the last binding call returned

flagVars == <<flist, bcall, berr>>

vars == <<typ, repl, idx, ierr, ipc, fkey, fargs, fname, fres, ires,
          environ, fsys, bound, lpc, lcall, lres, eres, flist, bcall, berr>>

NoLoad == LoadReturn(<<>>, <<>>, NoErr, ConfigOptions(<<>>, <<>>, FALSE, FALSE, <<>>), NoTrace)

NoEnvSet == [v |-> <<>>, ret |-> <<>>, err |-> NoErr, calls |-> <<>>,
             prefix |-> <<>>, strict |-> FALSE, index |-> EmptyIndex]

\* os.Setenv / t.Setenv of a variable that is not set yet
\* the setup steps taken so far
SetupSteps == Len(environ) + Cardinality(DOMAIN fsys) + Cardinality(DOMAIN bound)

Setenv ==
    /\ lpc = "setup"
    /\ SetupSteps < MaxSetup
    /\ Len(environ) < MaxEnv
    /\ \E e \in EnvVars :
          /\ \A i \in DOMAIN environ : EnvName(environ[i]) # EnvName(e)
          /\ environ' = Append(environ, e)
    /\ UNCHANGED <<fsys, bound, lpc, lcall, lres, eres>>
    /\ UNCHANGED <<indexVars, flagVars>>

\* os.WriteFile(path, contents)
WriteFile ==
    /\ lpc = "setup"
    /\ SetupSteps < MaxSetup
    /\ Cardinality(DOMAIN fsys) < MaxFiles
    /\ \E w \in FileWrites :
          /\ w[1] \notin DOMAIN fsys
          /\ fsys' = MapPut(fsys, w[1], w[2])
    /\ UNCHANGED <<environ, bound, lpc, lcall, lres, eres>>
    /\ UNCHANGED <<indexVars, flagVars>>

\* Flags.BindFlag(fs, target, flag) with a target and a flag that are there
BindFlag ==
    /\ lpc = "setup"
    /\ SetupSteps < MaxSetup
    /\ Cardinality(DOMAIN bound) < MaxFlags
    /\ \E b \in Bindings :
          /\ ToLower(b[1]) \notin DOMAIN bound
          /\ bound' = MapPut(bound, ToLower(b[1]), b[2])
    /\ UNCHANGED <<environ, fsys, lpc, lcall, lres, eres>>
    /\ UNCHANGED <<indexVars, flagVars>>

\* the orders in which a map with these keys can be iterated
Orders(keys) ==
    {o \in [1..Cardinality(keys) -> keys] : \A i, j \in DOMAIN o : i # j => o[i] # o[j]}

\* config.Load[*T](WithFile, WithName, Strict, WithExtensions, WithPaths, WithFlags,
\* WithIndex); the
\* bound flags are passed with WithFlags when there are any, the index the
\* callers built, when they built one, with WithIndex to a Load of its type.
\* o.Index is then the callers' map: what the options hold when Load
\* returns is what the callers' index holds
LoadCall ==
    /\ lpc = "setup"
    /\ \E c \in LoadCalls, order \in Orders(DOMAIN bound) :
          /\ idx = EmptyIndex \/ c.t = typ
          /\ lcall' = c
          /\ LET Returned(r) ==
                    /\ lres' = r
                    /\ idx' = IF idx = EmptyIndex THEN idx ELSE r.o.Index
             IN Returned(Load(c.t,
                              WithIndex(WithPaths(WithExtensions(ConfigOptions(c.file, c.name, c.strict,
                                                                               DOMAIN bound # {}, bound),
                                                                 c.ext),
                                                  c.paths),
                                        idx),
                              environ, fsys, order))
    /\ lpc' = "loaded"
    /\ UNCHANGED <<environ, fsys, bound, eres>>
    /\ UNCHANGED <<typ, repl, ierr, ipc, fkey, fargs, fname, fres, ires, flagVars>>

\* an index the callers write by hand (TestSetEnv_LookupNotFoundError): to
\* the entries of the index of LoadConfig it adds MY_VAR with a path that
\* names no field
CallerIndex ==
    MapPut(LoadConfigIndex.m, <<"M","Y","_","V","A","R">>, Item(<<"n","o","n",".","e","x","i","s","t","e","n","t",".","f","i","e","l","d">>, TString, FALSE))

\* env.Set(&cfg, WithName(name), WithStrict(strict), WithIndex(index)) on a
\* record that holds its defaults; index is idx, empty unless the callers
\* built it, or the index they wrote by hand
EnvSetCall ==
    /\ lpc = "setup"
    /\ \E name \in EnvSetNames, strict \in BOOLEAN, index \in {idx, CallerIndex} :
          LET Returned(r) == [v |-> <<r.v>>, ret |-> r.ret, err |-> r.err,
                              calls |-> r.calls, prefix |-> WithName(name),
                              strict |-> strict, index |-> index]
          IN eres' = Returned(EnvSet(DefaultsSet(Zero(LoadConfig), LoadConfig),
                                     LoadConfig, WithName(name), strict, index,
                                     environ))
    /\ lpc' = "envset"
    /\ UNCHANGED <<environ, fsys, bound, lcall, lres>>
    /\ UNCHANGED <<indexVars, flagVars>>

\* ------------------------------------------------------------------------
\* pkg/flags: binding
\* ------------------------------------------------------------------------

\* a nil *pflag.Flag and a nil *cobra.Command
NilFlag == <<>>

NilCmd == <<>>

\* flags.Flag
Flag(fs, flag, parent, persistent) ==
    [fs |-> fs, flag |-> flag, parent |-> parent, persistent |-> persistent]

\* flags.NewFlagList
NewFlagList(dict) == [flags |-> EmptyIndex, dict |-> dict]

\* a cobra.Command: its Use line and its two flag sets, flag name -> flag
Command(use, persistent, local) == [Use |-> use, persistent |-> persistent, local |-> local]

\* pflag.FlagSet.Lookup
FlagSetLookup(fs, name) == IF name \in DOMAIN fs THEN fs[name] ELSE NilFlag

\* the errors of the binding operations
EmptyTargetError == [kind |-> "emptytarget", name |-> <<>>]

NilCommandError == [kind |-> "nilcommand", name |-> <<>>]

SourceNotFoundError(source, target) == [kind |-> "sourcenotfound", name |-> <<source, target>>]

TargetNotFoundError(target) == [kind |-> "targetnotfound", name |-> target]

FlagNotFoundError(target) == [kind |-> "flagnotfound", name |-> target]

\* BindFlag storing the flag before it checks it
FlagsBindFlagEager(f, fs, target, flag) ==
    LET g == [f EXCEPT !.flags = MapPut(f.flags, ToLower(target), Flag(fs, flag, <<>>, FALSE))]
    IN IF Len(target) = 0 THEN [f |-> g, err |-> EmptyTargetError]
       ELSE IF flag = NilFlag THEN [f |-> g, err |-> FlagNotFoundError(target)]
       ELSE [f |-> g, err |-> NoErr]

\* Flags.BindFlag: the Flags after the call and the error
FlagsBindFlag(f, fs, target, flag) ==
    IF Len(target) = 0 THEN [f |-> f, err |-> EmptyTargetError]
    ELSE IF flag = NilFlag THEN [f |-> f, err |-> FlagNotFoundError(target)]
    ELSE [f   |-> [f EXCEPT !.flags = MapPut(f.flags, ToLower(target),
                                              Flag(fs, flag, <<>>, FALSE))],
          err |-> NoErr]

\* Flags.BindCmdFlag: the Flags after the call and the error
FlagsBindCmdFlag(f, cmd, target, source) ==
    IF Len(target) = 0 THEN [f |-> f, err |-> EmptyTargetError]
    ELSE IF cmd = NilCmd THEN [f |-> f, err |-> NilCommandError]
    ELSE
      LET Bind(p, l) ==
            LET Store(t) ==
                  [f   |-> [f EXCEPT !.flags =
                               MapPut(f.flags, t,
                                      IF p # NilFlag
                                      THEN Flag("PersistentFlags", p, cmd.Use, TRUE)
                                      ELSE Flag("Flags", l, cmd.Use, FALSE))],
                   err |-> NoErr]
                Resolve(found) ==
                  IF found.ok THEN Store(found.path)
                  ELSE IF ~PathExists(f.dict, ToLower(target))
                       THEN [f |-> f, err |-> TargetNotFoundError(target)]
                       ELSE Store(ToLower(target))
            IN IF p = NilFlag /\ l = NilFlag
               THEN [f |-> f, err |-> SourceNotFoundError(source, target)]
               ELSE IF f.dict # EmptyIndex THEN Resolve(Find(f.dict, target))
               ELSE Store(ToLower(target))
      IN Bind(FlagSetLookup(cmd.persistent, source), FlagSetLookup(cmd.local, source))

\* the targets the callers bind to: none, a field name, a field path, an
\* index key, a name that is no field
BindTargets == {<<>>, <<"P","o","r","t">>, <<"S","u","b","2",".","N","a","m","e">>, <<"S","U","B","2","_","N","A","M","E">>, <<"N","o","p","e">>}

\* the flag handles the callers pass to BindFlag
FlagHandles == {NilFlag, PFlag(<<"p","o","r","t">>, "int", IntV(12), TRUE)}

\* the commands the callers pass to BindCmdFlag: none, and a command with
\* the persistent flag --port and the local flag --name
Commands ==
    {NilCmd,
     Command(<<"s","e","r","v","e">>,
             [n \in {<<"p","o","r","t">>} |-> PFlag(<<"p","o","r","t">>, "int", IntV(12), TRUE)],
             [n \in {<<"n","a","m","e">>} |-> PFlag(<<"n","a","m","e">>, "string", StrV(<<"g","n">>), TRUE)])}

\* the source flag names the callers pass to BindCmdFlag
Sources == {<<"p","o","r","t">>, <<"n","a","m","e">>, <<"m","i","s","s","i","n","g">>}

\* most binding calls on one flag collection
MaxBinds == 2

NoBind == [op |-> "none", cmd |-> NilCmd, target |-> <<>>, flag |-> NilFlag,
           before |-> EmptyIndex, n |-> 0]

\* Flags.BindFlag(fs, target, flag) for every target and flag handle
BindFlagCall ==
    /\ bcall.n < MaxBinds
    /\ \E target \in BindTargets, flag \in FlagHandles :
          LET Returned(r) ==
                /\ flist' = r.f
                /\ berr' = r.err
                /\ bcall' = [op |-> "BindFlag", cmd |-> NilCmd, target |-> target,
                             flag |-> flag, before |-> flist.flags, n |-> bcall.n + 1]
          IN Returned(FlagsBindFlag(flist, "fs", target, flag))
    /\ UNCHANGED <<indexVars, loadVars>>

\* Flags.BindCmdFlag(cmd, target, source) for every command, target and
\* source flag name
BindCmdFlagCall ==
    /\ bcall.n < MaxBinds
    /\ \E cmd \in Commands, target \in BindTargets, source \in Sources :
          LET Returned(r) ==
                /\ flist' = r.f
                /\ berr' = r.err
                /\ bcall' = [op |-> "BindCmdFlag", cmd |-> cmd, target |-> target,
                             flag |-> source, before |-> flist.flags, n |-> bcall.n + 1]
          IN Returned(FlagsBindCmdFlag(flist, cmd, target, source))
    /\ UNCHANGED <<indexVars, loadVars>>

InitFlags ==
    /\ flist = NewFlagList(EmptyIndex)
    /\ bcall = NoBind
    /\ berr = NoErr

\* ------------------------------------------------------------------------
\* One index shared by its readers
\* ------------------------------------------------------------------------

\* Index.Keys: the keys, collected into a new slice and sorted
Keys(d) == SortStrings(DOMAIN d)

\* Index.Items: the items, collected into a new slice and sorted by Path
\* (for an index whose paths are distinct)
Items(d) ==
    LET paths == SortStrings({d[k].Path : k \in DOMAIN d})
    IN [i \in DOMAIN paths |-> d[CHOOSE k \in DOMAIN d : d[k].Path = paths[i]]]

\* Index.Exists(name) for the keys of the index and a key it does not have
ExistsCall ==
    /\ ipc \in {"built", "found"}
    /\ \E name \in DOMAIN idx \cup {UnknownKey} :
          ires' = [op |-> "Exists", name |-> name, out |-> Exists(idx, name)]
    /\ UNCHANGED <<typ, repl, idx, ierr, ipc, fkey, fargs, fname, fres>>

\* Index.PathExists(name) for the paths of the index and a path it does not
\* have
PathExistsCall ==
    /\ ipc \in {"built", "found"}
    /\ \E name \in {idx[k].Path : k \in DOMAIN idx} \cup {ToLower(UnknownKey)} :
          ires' = [op |-> "PathExists", name |-> name, out |-> PathExists(idx, name)]
    /\ UNCHANGED <<typ, repl, idx, ierr, ipc, fkey, fargs, fname, fres>>

\* Index.Keys()
KeysCall ==
    /\ ipc \in {"built", "found"}
    /\ ires' = [op |-> "Keys", name |-> <<>>, out |-> Keys(idx)]
    /\ UNCHANGED <<typ, repl, idx, ierr, ipc, fkey, fargs, fname, fres>>

\* Index.Items()
ItemsCall ==
    /\ ipc \in {"built", "found"}
    /\ ires' = [op |-> "Items", name |-> <<>>, out |-> Items(idx)]
    /\ UNCHANGED <<typ, repl, idx, ierr, ipc, fkey, fargs, fname, fres>>

\* flags.NewFlagList(idx): a flag collection over the shared index
NewFlagListCall ==
    /\ ipc = "built"
    /\ bcall.n = 0
    /\ flist.dict = EmptyIndex
    /\ flist' = NewFlagList(idx)
    /\ UNCHANGED <<bcall, berr>>
    /\ UNCHANGED <<indexVars, loadVars>>

InitLoad ==
    /\ environ = <<>>
    /\ fsys = EmptyIndex
    /\ bound = EmptyIndex
    /\ lpc = "setup"
    /\ lcall = [t |-> LoadConfig, file |-> <<>>, name |-> <<>>, strict |-> FALSE,
                ext |-> <<>>, paths |-> <<>>]
    /\ lres = NoLoad
    /\ eres = NoEnvSet

NoRead == [op |-> "none", name |-> <<>>, out |-> <<>>]

InitIndexVars ==
    /\ idx = EmptyIndex
    /\ ierr = NoErr
    /\ ipc = "start"
    /\ fkey = <<>>
    /\ fargs = <<>>
    /\ fname = <<>>
    /\ fres = [path |-> <<>>, ok |-> FALSE]
    /\ ires = NoRead

\* the index operations on every record type
InitIndex ==
    /\ typ \in RecordTypes
    /\ repl \in Replacers
    /\ InitIndexVars
    /\ InitLoad
    /\ InitFlags

NextIndex ==
    \/ Build /\ UNCHANGED <<loadVars, flagVars>>
    \/ FindKey /\ UNCHANGED <<loadVars, flagVars>>
    \/ FindUnknown /\ UNCHANGED <<loadVars, flagVars>>

SpecIndex == InitIndex /\ [][NextIndex]_vars

\* the binding operations on a flag collection made without and with the
\* index of LoadConfig
InitBind ==
    /\ typ = LoadConfig
    /\ repl = <<>>
    /\ InitIndexVars
    /\ InitLoad
    /\ flist \in {NewFlagList(EmptyIndex), NewFlagList(LoadConfigIndex.m)}
    /\ bcall = NoBind
    /\ berr = NoErr

NextBind ==
    \/ BindFlagCall
    \/ BindCmdFlagCall

SpecBind == InitBind /\ [][NextBind]_vars

\* one index, of LoadConfig or of a record type with collections, built
\* once and then read by its users: looked up directly, handed to a flag
\* collection, or (the index of LoadConfig) handed to the environment layer
\* and to Load
InitShared ==
    /\ typ \in {LoadConfig, CollectionConfig}
    /\ repl = <<>>
    /\ InitIndexVars
    /\ InitLoad
    /\ InitFlags

\* the index is looked up directly
SharedLookups == environ = <<>> /\ lpc = "setup" /\ flist = NewFlagList(EmptyIndex)

\* the index is handed to a flag collection
SharedBinding == ipc = "built" /\ environ = <<>> /\ lpc = "setup"

\* the index is handed to env.Set and Load
SharedLoading == typ = LoadConfig /\ ipc = "built" /\ flist = NewFlagList(EmptyIndex)

NextShared ==
    \/ Build /\ UNCHANGED <<loadVars, flagVars>>
    \/ SharedLookups /\ FindKey /\ UNCHANGED <<loadVars, flagVars>>
    \/ SharedLookups /\ FindUnknown /\ UNCHANGED <<loadVars, flagVars>>
    \/ SharedLookups /\ ExistsCall /\ UNCHANGED <<loadVars, flagVars>>
    \/ SharedLookups /\ PathExistsCall /\ UNCHANGED <<loadVars, flagVars>>
    \/ SharedLookups /\ KeysCall /\ UNCHANGED <<loadVars, flagVars>>
    \/ SharedLookups /\ ItemsCall /\ UNCHANGED <<loadVars, flagVars>>
    \/ SharedBinding /\ NewFlagListCall
    \/ SharedBinding /\ flist.dict # EmptyIndex /\ BindFlagCall
    \/ SharedBinding /\ flist.dict # EmptyIndex /\ BindCmdFlagCall
    \/ SharedLoading /\ Setenv
    \/ SharedLoading /\ LoadCall
    \/ SharedLoading /\ EnvSetCall

SpecShared == InitShared /\ [][NextShared]_vars

\* the callers' setup followed by one Load or one env.Set
Init ==
    /\ typ = LoadConfig
    /\ repl = <<>>
    /\ InitIndexVars
    /\ InitLoad
    /\ InitFlags

Next ==
    \/ Setenv
    \/ WriteFile
    \/ BindFlag
    \/ LoadCall
    \/ EnvSetCall

Spec == Init /\ [][Next]_vars

\* ========================================================================
\* Properties
\* ========================================================================

\* a Find of an index key, placeholders filled in, has returned
FoundFromKey == ipc = "found" /\ fkey \in DOMAIN idx

\* every bracket group of the key is the empty placeholder []
OnlyPlaceholders(k) == \A i \in DOMAIN BracesSubmatches(k, 1) : BracesSubmatches(k, 1)[i] = <<>>

\* C9: Find substitutes the bracket contents left to right: for an entry
\* with n placeholders and an observed key whose bracket-stripped form is
\* the entry's key, Find returns the entry's Path with the i-th placeholder
\* holding the content of the i-th bracket group, whatever the contents
\* (an empty group followed by a non-empty one included).
C9_FindSubstitutesLeftToRight ==
    (/\ FoundFromKey
     /\ OnlyPlaceholders(fkey)
     /\ Placeholders(idx[fkey].Path) = Len(fargs))
    => /\ fres.ok
       /\ fres.path = FillPlaceholders(idx[fkey].Path, fargs)

\* C10 as stated: in the index of a record type without collections, Find
\* of every key is found and returns the Path recorded for that key.
C10_RoundTrip_AsStated ==
    (/\ FoundFromKey
     /\ ~HasCollection(typ)
     /\ fname = fkey)
    => /\ fres.ok
       /\ fres.path = idx[fkey].Path

\* C10, amended: in the index of a record type without collections, Find of
\* every key whose bracket groups (if any) are all empty is found and
\* returns the Path recorded for that key.
C10_RoundTrip ==
    (/\ FoundFromKey
     /\ ~HasCollection(typ)
     /\ fname = fkey
     /\ OnlyPlaceholders(fkey))
    => /\ fres.ok
       /\ fres.path = idx[fkey].Path

\* C10 witness: the key N[] of a type without collections was looked up by
\* itself and resolved to its recorded path
C10_Witness ==
    /\ FoundFromKey
    /\ ~HasCollection(typ)
    /\ fname = fkey
    /\ fkey = <<"N","[","]">>
    /\ fres.ok
    /\ fres.path = <<"n","a","m","e">>

\* ------------------------------------------------------------------------
\* What the layers supply to the fields of LoadConfig
\* ------------------------------------------------------------------------

\* the scalar fields of LoadConfig: dotted path, position in the record,
\* environment key, and the default its tag declares (the zero value if none)
LeafFields ==
    { [path |-> <<"h","o","s","t">>, at |-> <<1>>, key |-> <<"H","O","S","T">>, kind |-> "string", def |-> StrV(<<"l","h">>)],
      [path |-> <<"p","o","r","t">>, at |-> <<2>>, key |-> <<"P","O","R","T">>, kind |-> "int", def |-> IntV(80)],
      [path |-> <<"s","u","b","2",".","n","a","m","e">>, at |-> <<3, 1>>, key |-> <<"S","U","B","2","_","N","A","M","E">>, kind |-> "string", def |-> StrV(<<>>)],
      [path |-> <<"s","u","b","2",".","o","t","h","e","r">>, at |-> <<3, 2>>, key |-> <<"S","U","B","2","_","O","T","H","E","R">>, kind |-> "string", def |-> StrV(<<"d","2">>)],
      [path |-> <<"s","u","b","3",".","n","a","m","e">>, at |-> <<4, 1>>, key |-> <<"S","U","B","3","_","N","A","M","E">>, kind |-> "string", def |-> StrV(<<"d","3">>)] }

\* the positions of the optional substructures Sub2 and Sub3
OptionalFields == {3, 4}

\* the record with nothing but the declared defaults
DefaultRecord == <<StrV(<<"l","h">>), IntV(80), <<>>, <<>>>>

\* the field at position at of the record: <<value>>, or <<>> when the
\* substructure it lies in is nil
ValueAt(cfg, at) ==
    IF Len(at) = 1 THEN <<cfg[at[1]]>>
    ELSE IF cfg[at[1]] = <<>> THEN <<>>
    ELSE <<cfg[at[1]][1][at[2]]>>

\* the file's entry for the substructure at position i is an object
DocHasObject(doc, i) == doc.t = "obj" /\ i \in DOMAIN doc.m /\ doc.m[i].t = "obj"

\* what the file says for the field at position at: <<value>> or <<>>
DocAt(doc, at) ==
    IF doc.t # "obj" \/ at[1] \notin DOMAIN doc.m THEN <<>>
    ELSE IF Len(at) = 1
         THEN IF doc.m[at[1]].t = "val" THEN <<doc.m[at[1]].v>> ELSE <<>>
    ELSE IF DocHasObject(doc, at[1]) /\ at[2] \in DOMAIN doc.m[at[1]].m
              /\ doc.m[at[1]].m[at[2]].t = "val"
         THEN <<doc.m[at[1]].m[at[2]].v>>
    ELSE <<>>

\* the value part of NAME=VALUE
EnvValue(envVar) == SubSeq(envVar, IndexFrom(envVar, <<"=">>, 1) + 1, Len(envVar))

\* the normalized key of a variable that carries the prefix
NormalizedKey(envVar, prefix) == ToUpper(Trim(TrimPrefix(EnvName(envVar), prefix), KeyCutset))

\* the variables of the environment that carry the prefix and whose
\* normalized key is key
VarsFor(prefix, key) ==
    {i \in DOMAIN environ : /\ HasPrefix(EnvName(environ[i]), prefix)
                            /\ NormalizedKey(environ[i], prefix) = key}

\* the normalized keys of the variables that carry the prefix and name no
\* field of LoadConfig
UnknownKeys(prefix) ==
    {NormalizedKey(environ[i], prefix) :
        i \in {j \in DOMAIN environ :
                 /\ HasPrefix(EnvName(environ[j]), prefix)
                 /\ NormalizedKey(environ[j], prefix)
                      \notin {f.key : f \in LeafFields} \cup {<<"S","U","B","2">>, <<"S","U","B","3">>}}}

\* the environment without the variables whose normalized key is in keys
WithoutKeys(prefix, keys) ==
    SelectSeq(environ, LAMBDA e : ~(/\ HasPrefix(EnvName(e), prefix)
                                    /\ NormalizedKey(e, prefix) \in keys))

\* the value, trimmed, of the last of the variables for key: of several
\* variables that resolve to one field, the last in the environment is the
\* one applied
EnvHeld(prefix, key) ==
    LET last == CHOOSE i \in VarsFor(prefix, key) : \A j \in VarsFor(prefix, key) : j <= i
    IN Trim(EnvValue(environ[last]), ValueCutset)

\* a string of the environment, as a value of a field of that kind
AsKind(s, kind) == IF kind = "int" THEN IntV(ParseInt(s).n) ELSE StrV(s)

\* Load returned, for LoadConfig
Loaded == lpc = "loaded" /\ lcall.t = LoadConfig

LoadedOk == Loaded /\ lres.err = NoErr /\ lres.cfg # <<>>

\* the prefix of the environment layer of the last Load
LoadPrefix == ToUpper(lres.o.Name) \o <<"_">>

\* the layers of the last Load that supply field f
FlagSupplies(f) == f.path \in DOMAIN bound /\ bound[f.path].changed

EnvSupplies(f) == lres.envRan /\ VarsFor(LoadPrefix, f.key) # {}

FileSupplies(f) == lres.file \in DOMAIN fsys /\ DocAt(fsys[lres.file], f.at) # <<>>

\* the value the layers below the flags leave in field f
LowerLayers(f) ==
    IF EnvSupplies(f) THEN AsKind(EnvHeld(LoadPrefix, f.key), f.kind)
    ELSE IF FileSupplies(f) THEN DocAt(fsys[lres.file], f.at)[1]
    ELSE f.def

\* the value the highest layer that supplies field f gives it
HighestLayer(f) == IF FlagSupplies(f) THEN bound[f.path].value ELSE LowerLayers(f)

\* ------------------------------------------------------------------------
\* Load: layers, defaults, optional substructures
\* ------------------------------------------------------------------------

C2_UnsetFlagNotApplied ==
    LoadedOk =>
      \A f \in LeafFields :
         (f.path \in DOMAIN bound /\ ~bound[f.path].changed) =>
            LET a == ValueAt(lres.cfg[1], f.at)
            IN IF a = <<>> THEN ~EnvSupplies(f) /\ ~FileSupplies(f)
               ELSE a[1] = LowerLayers(f)

\* C2 witness: --port with default 11 was bound and not set, the environment
\* said 99, and port is 99
C2_Witness ==
    /\ LoadedOk
    /\ <<"p","o","r","t">> \in DOMAIN bound
    /\ ~bound[<<"p","o","r","t">>].changed
    /\ bound[<<"p","o","r","t">>].value = IntV(11)
    /\ lres.envRan
    /\ VarsFor(LoadPrefix, <<"P","O","R","T">>) # {}
    /\ EnvHeld(LoadPrefix, <<"P","O","R","T">>) = <<"9","9">>
    /\ lres.cfg[1][2] = IntV(99)

\* C3: an optional substructure that the file populates holds, after Load,
\* the file's value in every field the file gives and the declared default
\* in every field the file omits (fields that the environment or a set flag
\* supplies aside).
C3_PartialSubstructureDefaults ==
    LoadedOk =>
      \A i \in OptionalFields :
         (lres.file \in DOMAIN fsys /\ DocHasObject(fsys[lres.file], i)) =>
            /\ lres.cfg[1][i] # <<>>
            /\ \A f \in LeafFields :
                  (Len(f.at) = 2 /\ f.at[1] = i /\ ~FlagSupplies(f) /\ ~EnvSupplies(f)) =>
                     ValueAt(lres.cfg[1], f.at) =
                        IF FileSupplies(f) THEN DocAt(fsys[lres.file], f.at)
                        ELSE <<f.def>>

\* C3 witness: the file gave sub2.name only; Sub2 holds it and the default
\* of Other
C3_Witness ==
    /\ LoadedOk
    /\ lres.file \in DOMAIN fsys
    /\ fsys[lres.file] = DocObj(3 :> DocObj(1 :> DocVal(StrV(<<"f","n">>))))
    /\ lres.reloaded
    /\ lres.cfg[1][3] = <<<<StrV(<<"f","n">>), StrV(<<"d","2">>)>>>>

\* an optional substructure is mentioned by the file, by a variable of the
\* environment layer, or by a set flag
Mentioned(i) ==
    \/ lres.file \in DOMAIN fsys /\ fsys[lres.file].t = "obj"
          /\ i \in DOMAIN fsys[lres.file].m /\ fsys[lres.file].m[i].t # "null"
    \/ \E f \in LeafFields : Len(f.at) = 2 /\ f.at[1] = i /\ (FlagSupplies(f) \/ EnvSupplies(f))

\* C4: an optional substructure that no layer mentions is nil in the loaded
\* record, also when the record was rebuilt because the file populated
\* another optional substructure.
C4_UntouchedOptionalStaysNil ==
    LoadedOk => \A i \in OptionalFields : ~Mentioned(i) => lres.cfg[1][i] = <<>>

\* C4 witness: the file populated Sub2, the record was rebuilt, and Sub3,
\* which nothing mentions, is nil
C4_Witness ==
    /\ LoadedOk
    /\ lres.reloaded
    /\ Mentioned(3) /\ lres.cfg[1][3] # <<>>
    /\ ~Mentioned(4) /\ lres.cfg[1][4] = <<>>

\* the name discovery looks for and the environment layer takes its prefix
\* from: the configured one, "config" when none is configured
EffectiveName == IF lcall.name = <<>> THEN <<"c","o","n","f","i","g">> ELSE lcall.name

\* the extension list of the last call of Load: the one given with
\* WithExtensions, the package's table when none was given
ConfiguredExtensions == IF lcall.ext = <<>> THEN extensions ELSE lcall.ext

\* no file of the effective name and a configured extension lies in a
\* search directory, and CONFIG is not set
NothingToDiscover ==
    /\ \A i \in DOMAIN environ : EnvName(environ[i]) # <<"C","O","N","F","I","G">>
    /\ \A d \in {Cwd, Home} \cup Range(lcall.paths), x \in {e.Name : e \in Range(ConfiguredExtensions)} :
          (d \o <<"/">> \o EffectiveName \o x) \notin DOMAIN fsys

\* C5: when discovery finds no file, no variable of the environment carries
\* the prefix and no bound flag is set, Load (of a type whose index can be
\* built) succeeds, returns the empty file path, and the record holds exactly
\* the declared defaults.
C5_DefaultsOnly ==
    (/\ Loaded
     /\ lcall.file = <<>>
     /\ NothingToDiscover
     /\ \A i \in DOMAIN environ : ~HasPrefix(EnvName(environ[i]), ToUpper(EffectiveName) \o <<"_">>)
     /\ \A p \in DOMAIN bound : ~bound[p].changed)
    => /\ lres.err = NoErr
       /\ lres.file = <<>>
       /\ lres.cfg = <<DefaultRecord>>

\* C5 witness: a file of another name, a variable without the prefix and a
\* flag that is not set were there, and Load returned the defaults
C5_Witness ==
    /\ Loaded
    /\ lcall.file = <<>>
    /\ NothingToDiscover
    /\ DOMAIN fsys # {} /\ environ # <<>>
    /\ \A i \in DOMAIN environ : ~HasPrefix(EnvName(environ[i]), ToUpper(EffectiveName) \o <<"_">>)
    /\ DOMAIN bound # {} /\ \A p \in DOMAIN bound : ~bound[p].changed
    /\ lres.err = NoErr
    /\ lres.file = <<>>
    /\ lres.cfg = <<DefaultRecord>>

\* ------------------------------------------------------------------------
\* Load and env.Set: errors
\* ------------------------------------------------------------------------

\* the options of the last call of Load
CallOptions ==
    WithPaths(WithExtensions(ConfigOptions(lcall.file, lcall.name, lcall.strict,
                                           DOMAIN bound # {}, bound),
                             lcall.ext),
              lcall.paths)

\* what env.Set returns for LoadConfig in the environment env
EnvSetIn(env, prefix, strict) ==
    EnvSet(DefaultsSet(Zero(LoadConfig), LoadConfig), LoadConfig, prefix, strict,
           EmptyIndex, env)

\* C6: a variable carries the prefix and its normalized key has no index
\* entry: in strict mode the environment layer, and a Load that comes to it,
\* fails with the not-found error naming such a key and hands back no record;
\* in non-strict mode the outcome (record, file path and error) is the one
\* of the same call in the environment without those variables.
C6_UnknownKey ==
    /\ (lpc = "envset" /\ eres.index = EmptyIndex /\ UnknownKeys(eres.prefix) # {}) =>
          IF eres.strict
          THEN /\ eres.err \in {NotFoundError(k) : k \in UnknownKeys(eres.prefix)}
               /\ eres.ret = <<>>
          ELSE LET Same(r) == eres.err = r.err /\ eres.ret = r.ret /\ eres.v = <<r.v>>
               IN Same(EnvSetIn(WithoutKeys(eres.prefix, UnknownKeys(eres.prefix)),
                                eres.prefix, FALSE))
    /\ (Loaded /\ lres.envRan /\ UnknownKeys(LoadPrefix) # {}) =>
          IF lcall.strict
          THEN /\ lres.err \in {NotFoundError(k) : k \in UnknownKeys(LoadPrefix)}
               /\ lres.cfg = <<>>
          ELSE \E order \in Orders(DOMAIN bound) :
                  LET Same(r) == lres.err = r.err /\ lres.cfg = r.cfg /\ lres.file = r.file
                  IN Same(Load(LoadConfig, CallOptions,
                               WithoutKeys(LoadPrefix, UnknownKeys(LoadPrefix)),
                               fsys, order))

\* C6 witness: a strict Load met APP_NOPE next to a variable it knows and
\* failed naming NOPE
C6_Witness ==
    /\ Loaded
    /\ lcall.strict
    /\ lres.envRan
    /\ UnknownKeys(LoadPrefix) = {<<"N","O","P","E">>}
    /\ VarsFor(LoadPrefix, <<"P","O","R","T">>) # {}
    /\ lres.err = NotFoundError(<<"N","O","P","E">>)
    /\ lres.cfg = <<>>

\* the value the environment holds for an int field is no integer
BadEnvValue(prefix) ==
    \E f \in LeafFields :
       /\ f.kind = "int"
       /\ VarsFor(prefix, f.key) # {}
       /\ ~ParseInt(EnvHeld(prefix, f.key)).ok

\* a set flag bound to an int field holds a string that is no integer
BadFlagValue ==
    \E f \in LeafFields :
       /\ f.kind = "int"
       /\ FlagSupplies(f)
       /\ bound[f.path].value.k = "string"
       /\ ~ParseInt(bound[f.path].value.s).ok

\* C7: a value that resolves to an existing field and cannot be coerced to
\* the field's type makes the environment layer, and a Load that comes to
\* its layers, fail, strict or not, whether the value is the one the
\* environment holds for the field or that of an explicitly set flag.
C7_CoercionFatal ==
    /\ (lpc = "envset" /\ BadEnvValue(eres.prefix)) =>
          eres.err # NoErr /\ eres.ret = <<>>
    /\ (Loaded /\ lres.layers /\ ((lres.envRan /\ BadEnvValue(LoadPrefix)) \/ BadFlagValue)) =>
          lres.err # NoErr /\ lres.cfg = <<>>

\* C7 witness: a Load that is not strict met APP_PORT=zz and failed with
\* the type error for port
C7_Witness ==
    /\ Loaded
    /\ ~lcall.strict
    /\ lres.layers /\ lres.envRan
    /\ BadEnvValue(LoadPrefix)
    /\ ~BadFlagValue
    /\ lres.err = TypeError(<<"p","o","r","t">>)
    /\ lres.cfg = <<>>

\* C8: Load returns a nil record with every error, and a record with none.
C8_NilRecordIffError ==
    lpc = "loaded" => (lres.err # NoErr <=> lres.cfg = <<>>)

\* C8 witness: the file was read into the record and the environment layer
\* wrote to it before a set flag failed; no record came back
C8_Witness ==
    /\ Loaded
    /\ lres.first # <<>>
    /\ lres.layers
    /\ lres.calls # <<>>
    /\ BadFlagValue
    /\ lres.err # NoErr
    /\ lres.cfg = <<>>

\* ------------------------------------------------------------------------
\* The entries of a built index
\* ------------------------------------------------------------------------

\* index.New returned an index
Built == ipc \in {"built", "found"} /\ ierr = NoErr

\* the key segment collect derives for a field that is not excluded
KeySegment(field, d) ==
    SnakeCase(IF field.env = <<>> THEN ApplyReplacer(field.name, d) ELSE field.env)

\* the fields of record type t, reached through records only, that are
\* tagged env:"-" and are records themselves (pointers followed): each with
\* the key segments of the enclosing fields, its own lowercase path and its
\* record type
RECURSIVE ExcludedRecords(_, _, _, _)
ExcludedRecords(t, tag, path, d) ==
    UNION { LET field == t.fields[i]
                sub   == Deref(field.type)
                p     == Append(path, ToLower(field.name))
            IN IF ~IsExported(field) \/ field.env = <<"-","-">> \/ sub.kind # "struct" THEN {}
               ELSE IF field.env = <<"-">>
               THEN {[tag |-> tag, path |-> p, type |-> sub]}
                    \cup ExcludedRecords(sub, tag, p, d)
               ELSE ExcludedRecords(sub, Append(tag, KeySegment(field, d)), p, d)
          : i \in DOMAIN t.fields }

\* the fields of a record type that get a key segment of their own
KeyedFields(t) ==
    {i \in DOMAIN t.fields : IsExported(t.fields[i]) /\ t.fields[i].env \notin {<<"-">>, <<"-","-">>}}

\* C11: a record field tagged env:"-" has no entry of its own (no entry has
\* its path), and each of its keyed child fields has an entry whose key is
\* the enclosing key prefix followed by the child's segment, with no segment
\* for the excluded field, and whose Path runs through the excluded field's
\* lowercase name.
C11_ExcludeSelfRecord ==
    Built =>
      \A x \in ExcludedRecords(Deref(typ), <<>>, <<>>, repl) :
         /\ \A k \in DOMAIN idx : idx[k].Path # Join(x.path, <<".">>)
         /\ \A i \in KeyedFields(x.type) :
               LET child == x.type.fields[i]
                   key   == Join(Append(x.tag, KeySegment(child, repl)), <<"_">>)
               IN /\ key \in DOMAIN idx
                  /\ idx[key].Path = Join(Append(x.path, ToLower(child.name)), <<".">>)

\* C11 witness: Server.Settings2 struct{Name} `env:"-"` gave the entry
\* SERVER_NAME with path server.settings2.name
C11_Witness ==
    /\ Built
    /\ typ = SkipConfig
    /\ <<"S","E","R","V","E","R","_","N","A","M","E">> \in DOMAIN idx
    /\ idx[<<"S","E","R","V","E","R","_","N","A","M","E">>].Path = <<"s","e","r","v","e","r",".","s","e","t","t","i","n","g","s","2",".","n","a","m","e">>
    /\ <<"S","E","R","V","E","R","_","S","E","T","T","I","N","G","S","2">> \notin DOMAIN idx

\* index.New returned, with an index or with an error
BuildReturned == ipc \in {"built", "found"}

\* the fields of record type t, reached through records only, that are
\* tagged env:"-" and are slices, arrays or maps (pointers followed): each
\* with its lowercase path, whether its elements are text unmarshalers and
\* the element type
RECURSIVE ExcludedCollections(_, _)
ExcludedCollections(t, path) ==
    UNION { LET field == t.fields[i]
                sub   == Deref(field.type)
                p     == Append(path, ToLower(field.name))
            IN IF ~IsExported(field) \/ field.env = <<"-","-">> THEN {}
               ELSE IF sub.kind = "struct" THEN ExcludedCollections(sub, p)
               ELSE IF sub.kind \in CollectionKinds /\ field.env = <<"-">>
               THEN {[path |-> Join(p, <<".">>),
                      ma   |-> Implements(IF sub.elem.kind = "ptr" THEN sub.elem.elem ELSE sub.elem),
                      elem |-> IF sub.elem.kind = "ptr" THEN sub.elem.elem ELSE sub.elem]}
               ELSE {}
          : i \in DOMAIN t.fields }

\* the elements of the excluded collection are records that bring entries
RecordElements(x) == ~x.ma /\ x.elem.kind = "struct" /\ KeyedFields(x.elem) # {}

\* the elements of the excluded collection bring no entry: they are text
\* unmarshalers or scalars
PlainElements(x) == x.ma \/ x.elem.kind \notin CollectionKinds \cup {"struct", "ptr"}

BindReturned == bcall.op \in {"BindFlag", "BindCmdFlag"}

\* the last binding call was given a flag handle: a flag for BindFlag, a
\* command that has the source flag for BindCmdFlag
HandlePresent ==
    IF bcall.op = "BindFlag" THEN bcall.flag # NilFlag
    ELSE /\ bcall.cmd # NilCmd
         /\ bcall.flag \in DOMAIN bcall.cmd.persistent \cup DOMAIN bcall.cmd.local

\* the target is neither a key of the index nor, lowercased, one of its paths
NotInIndex(dict, target) == ~Find(dict, target).ok /\ ~PathExists(dict, ToLower(target))

\* C13: on a flag collection created with a non-empty index, a binding call
\* (BindFlag or BindCmdFlag) with a flag handle and a target that is neither
\* a key nor, lowercased, a path of the index returns an error and binds
\* nothing.
C13_UnknownTargetRejected ==
    (/\ BindReturned
     /\ flist.dict # EmptyIndex
     /\ bcall.target # <<>>
     /\ HandlePresent
     /\ NotInIndex(flist.dict, bcall.target))
    => /\ berr # NoErr
       /\ flist.flags = bcall.before

\* the flag the last binding call was to bind
BoundHandle ==
    IF bcall.op = "BindFlag" THEN Flag("fs", bcall.flag, <<>>, FALSE)
    ELSE IF bcall.flag \in DOMAIN bcall.cmd.persistent
         THEN Flag("PersistentFlags", bcall.cmd.persistent[bcall.flag], bcall.cmd.Use, TRUE)
         ELSE Flag("Flags", bcall.cmd.local[bcall.flag], bcall.cmd.Use, FALSE)

\* the path the target of the last binding call stands for: the path a key
\* of the collection's index resolves to (BindCmdFlag), the lowercased
\* target otherwise
TargetPath ==
    IF bcall.op = "BindCmdFlag" /\ flist.dict # EmptyIndex /\ Find(flist.dict, bcall.target).ok
    THEN Find(flist.dict, bcall.target).path
    ELSE ToLower(bcall.target)

RECURSIVE DistinctLowerNames(_)
DistinctLowerNames(t) ==
    IF "elem" \in DOMAIN t THEN DistinctLowerNames(t.elem)
    ELSE IF t.kind # "struct" THEN TRUE
    ELSE LET walked == {i \in DOMAIN t.fields :
                          IsExported(t.fields[i]) /\ t.fields[i].env # <<"-","-">>}
         IN /\ \A i, j \in walked :
                  i # j => ToLower(t.fields[i].name) # ToLower(t.fields[j].name)
            /\ \A i \in walked : DistinctLowerNames(t.fields[i].type)

\* no two entries of the index have the same Path
PathsDistinct == \A j, k \in DOMAIN idx : j # k => idx[j].Path # idx[k].Path

\* C16 as stated: in every index index.New returns no two entries have the
\* same Path.
C16_PathsDistinct_AsStated == Built => PathsDistinct

\* C16, amended: in every index index.New returns for a record type whose
\* records have no two fields with names that are equal when lowercased, no
\* two entries have the same Path.
C16_PathsDistinct == (Built /\ DistinctLowerNames(typ)) => PathsDistinct

\* C16 witness: the index of a type with collections holds the entries of
\* the slice db.set and of its elements db.set[] under different paths
C16_Witness ==
    /\ Built
    /\ typ = CollectionConfig
    /\ DistinctLowerNames(typ)
    /\ idx[<<"D","B","_","S","E","T">>].Path = <<"d","b",".","s","e","t">>
    /\ idx[<<"D","B","_","S","E","T","[","]">>].Path = <<"d","b",".","s","e","t","[","]">>
    /\ idx[<<"D","B","_","S","E","T","[","]","_","N","A","M","E">>].Path = <<"d","b",".","s","e","t","[","]",".","n","a","m","e">>

\* no env tag of record type t (pointers and collections followed) holds a
\* bracket
RECURSIVE TagsWithoutBrackets(_)
TagsWithoutBrackets(t) ==
    IF "elem" \in DOMAIN t THEN TagsWithoutBrackets(t.elem)
    ELSE IF t.kind # "struct" THEN TRUE
    ELSE \A i \in DOMAIN t.fields :
            /\ ~Contains(t.fields[i].env, LB)
            /\ ~Contains(t.fields[i].env, RB)
            /\ TagsWithoutBrackets(t.fields[i].type)

\* every entry has as many [] in its Path as in its key
PlaceholdersAgree == \A k \in DOMAIN idx : Placeholders(idx[k].Path) = Placeholders(k)

C18_KeysUpperCase ==
    Built =>
      \A k \in DOMAIN idx :
         /\ ToUpper(k) = k
         /\ OnlyPlaceholders(k) => Find(idx, ToUpper(k)).ok

\* ------------------------------------------------------------------------
\* Load: the file and its kind
\* ------------------------------------------------------------------------

\* Load returned, for any record type
LoadReturned == lpc = "loaded"

\* the value of CONFIG in the environment, <<>> when it is not set
ConfigVar == Getenv(environ, <<"C","O","N","F","I","G">>)

\* C19: the kind of the file Load deserializes is the kind of the first
\* configured extension (WithExtensions; the package's table when none is
\* given) that is a suffix of the file's name, for a file given with
\* WithFile as for a discovered one; a file whose name has no configured
\* suffix makes Load fail with the unknown-file-type error.
C19_KindFromConfiguredExtensions ==
    Loaded =>
      /\ (/\ lcall.file # <<>>
          /\ lcall.file \in DOMAIN fsys
          /\ ~Contains(lcall.file, <<".",".">>)) =>
             LET ft == FirstSuffixType(lcall.file, ConfiguredExtensions)
             IN IF ft = UnknownFileType
                THEN lres.err = UnknownFileTypeError(lcall.file) /\ lres.cfg = <<>>
                ELSE lres.o.FileType = ft /\ lres.err.kind # "unknownfiletype"
      /\ (lcall.file = <<>> /\ lres.o.File # <<>>) =>
             /\ lres.o.FileType = FirstSuffixType(lres.o.File, ConfiguredExtensions)
             /\ lres.o.FileType # UnknownFileType
      /\ (/\ lcall.file = <<>>
          /\ ConfigVar # <<>>
          /\ ~Contains(ConfigVar, <<".",".">>)
          /\ FirstSuffixType(ConfigVar, ConfiguredExtensions) = UnknownFileType) =>
             lres.err = UnknownFileTypeError(ConfigVar) /\ lres.cfg = <<>>

\* the path Load is to take the file from holds "..": the path given with
\* WithFile, or the value of CONFIG when no path is given
TraversalPath ==
    IF lcall.file # <<>> THEN lcall.file ELSE ConfigVar

\* C20: Load with an explicit file path, or without one and with a CONFIG
\* value, that contains ".." fails with the path-traversal error, returns a
\* nil record and the empty file path, and has read and deserialized no file.
C20_TraversalRejected ==
    (LoadReturned /\ Contains(TraversalPath, <<".",".">>)) =>
       /\ lres.err = TraversalError(TraversalPath)
       /\ lres.cfg = <<>>
       /\ lres.file = <<>>
       /\ lres.first = <<>>
       /\ ~lres.reloaded
       /\ ~lres.layers

\* C20 witness: with /w/app.json written, Load of /w/../app.json returned the
\* traversal error for that path
C20_Witness ==
    /\ LoadReturned
    /\ lcall.file = <<"/","w","/",".",".","/","a","p","p",".","j","s","o","n">>
    /\ <<"/","w","/","a","p","p",".","j","s","o","n">> \in DOMAIN fsys
    /\ lres.err = TraversalError(<<"/","w","/",".",".","/","a","p","p",".","j","s","o","n">>)
    /\ lres.cfg = <<>>
    /\ lres.file = <<>>

\* ------------------------------------------------------------------------
\* The environment layer: what is applied, and in which order
\* ------------------------------------------------------------------------

\* the index the environment layer works with: the one passed to it, the
\* index it builds for LoadConfig when none is passed
IndexUsed(index0) == IF index0 = EmptyIndex THEN LoadConfigIndex.m ELSE index0

\* the variables of the environment env the layer matches: they carry the
\* prefix and their normalized key resolves in the index
Matched(env, prefix, index) ==
    {i \in DOMAIN env :
        /\ HasPrefix(EnvName(env[i]), prefix)
        /\ Find(index, NormalizedKey(env[i], prefix)).ok}

\* the path variable i of env resolves to
ResolvedPath(env, i, prefix, index) == Find(index, NormalizedKey(env[i], prefix)).path

\* the distinct resolved paths of the matched variables
MatchedPaths(env, prefix, index) ==
    {ResolvedPath(env, i, prefix, index) : i \in Matched(env, prefix, index)}

\* calls names paths of the set in ascending byte-wise order, each once, and
\* leaves out none that is less than one it names
AscendingFrom(calls, paths) ==
    /\ \A i \in DOMAIN calls : calls[i] \in paths
    /\ \A i, j \in DOMAIN calls : i < j => StrLess(calls[i], calls[j])
    /\ \A p \in paths, i \in DOMAIN calls : StrLess(p, calls[i]) => \E j \in DOMAIN calls : calls[j] = p

\* C21: the environment layer calls the path-setter once per distinct
\* resolved path of the matched variables, in ascending byte-wise order of
\* the paths, whatever the order of the variables in the environment: the
\* calls made are the least of the paths in ascending order, and all of them
\* when the layer (the Load) returned no error.
C21_AppliedInPathOrder ==
    /\ lpc = "envset" =>
          /\ AscendingFrom(eres.calls, MatchedPaths(environ, eres.prefix, IndexUsed(eres.index)))
          /\ eres.err = NoErr => Len(eres.calls) = Cardinality(MatchedPaths(environ, eres.prefix, IndexUsed(eres.index)))
    /\ (Loaded /\ lres.envRan) =>
          /\ AscendingFrom(lres.calls, MatchedPaths(environ, LoadPrefix, lres.o.Index))
          /\ lres.err = NoErr => Len(lres.calls) = Cardinality(MatchedPaths(environ, LoadPrefix, lres.o.Index))

\* C21 witness: the environment lists APP_SUB2_NAME before APP_PORT, and
\* env.Set set port first and sub2.name second
C21_Witness ==
    /\ lpc = "envset"
    /\ Len(environ) = 2
    /\ ResolvedPath(environ, 1, eres.prefix, IndexUsed(eres.index)) = <<"s","u","b","2",".","n","a","m","e">>
    /\ ResolvedPath(environ, 2, eres.prefix, IndexUsed(eres.index)) = <<"p","o","r","t">>
    /\ Matched(environ, eres.prefix, IndexUsed(eres.index)) = {1, 2}
    /\ eres.calls = <<<<"p","o","r","t">>, <<"s","u","b","2",".","n","a","m","e">>>>
    /\ eres.err = NoErr

\* the environment layer called directly, with an index that resolves every
\* key of the variables that carry the prefix: the first loop passed
EnvSetApplied ==
    /\ lpc = "envset"
    /\ \A i \in DOMAIN environ :
          HasPrefix(EnvName(environ[i]), eres.prefix) =>
             i \in Matched(environ, eres.prefix, IndexUsed(eres.index))

\* the matched paths that name no field of LoadConfig
MissingPaths ==
    {p \in MatchedPaths(environ, eres.prefix, IndexUsed(eres.index)) :
        p \notin {f.path : f \in LeafFields}}

\* the matched paths of fields whose value in the environment cannot be
\* coerced to the field's type
UncoerciblePaths ==
    {f.path : f \in {g \in LeafFields : /\ g.kind = "int"
                                        /\ VarsFor(eres.prefix, g.key) # {}
                                        /\ ~ParseInt(EnvHeld(eres.prefix, g.key)).ok}}

\* the environment without the variables that resolve to a missing path
WithoutMissing ==
    SelectSeq(environ,
              LAMBDA e : ~(/\ HasPrefix(EnvName(e), eres.prefix)
                           /\ Find(IndexUsed(eres.index), NormalizedKey(e, eres.prefix)).ok
                           /\ Find(IndexUsed(eres.index), NormalizedKey(e, eres.prefix)).path
                                 \in MissingPaths))

\* the field of LoadConfig at path p holds its default (its substructure is
\* nil or holds the default) in the record cfg
HoldsDefault(cfg, p) ==
    \A f \in LeafFields :
       f.path = p => LET a == ValueAt(cfg, f.at) IN a = <<>> \/ a[1] = f.def

\* C22: the path-setter reports not-found for a path the index resolved: not
\* strict, the layer skips the entry and its outcome is the one it has
\* without the variables of such paths; strict, it returns the not-found
\* error of the least such path, unless a lesser path failed before. Any
\* other error of the setter (a value that cannot be coerced) is returned,
\* strict or not, and at once: the failing path is the last one set, and the
\* fields of the greater paths keep their defaults.
C22_SetterErrors ==
    EnvSetApplied =>
      /\ (~eres.strict /\ MissingPaths # {}) =>
            /\ eres.err.kind # "notfound"
            /\ LET Same(r) == eres.err = r.err /\ eres.ret = r.ret /\ eres.v = <<r.v>>
               IN Same(EnvSet(DefaultsSet(Zero(LoadConfig), LoadConfig), LoadConfig,
                              eres.prefix, FALSE, eres.index, WithoutMissing))
      /\ (eres.strict /\ MissingPaths # {}) =>
            /\ eres.err # NoErr /\ eres.ret = <<>>
            /\ (\A q \in UncoerciblePaths : \E p \in MissingPaths : StrLess(p, q)) =>
                  /\ eres.err \in {NotFoundError(p) : p \in MissingPaths}
                  /\ \A p \in MissingPaths : p = eres.err.name \/ StrLess(eres.err.name, p)
      /\ (/\ UncoerciblePaths # {}
          /\ eres.strict => \A p \in MissingPaths : \E q \in UncoerciblePaths : StrLess(q, p)) =>
            eres.err \in {TypeError(q) : q \in UncoerciblePaths}
      /\ eres.err.kind = "type" =>
            /\ eres.ret = <<>>
            /\ eres.calls # <<>> /\ eres.calls[Len(eres.calls)] = eres.err.name
            /\ \A q \in MatchedPaths(environ, eres.prefix, IndexUsed(eres.index)) :
                  StrLess(eres.err.name, q) => HoldsDefault(eres.v[1], q)

\* C22 witness: not strict, APP_MY_VAR resolved to non.existent.field, which
\* the setter did not find, and APP_PORT=99 after it was applied
C22_Witness ==
    /\ EnvSetApplied
    /\ ~eres.strict
    /\ MissingPaths = {<<"n","o","n",".","e","x","i","s","t","e","n","t",".","f","i","e","l","d">>}
    /\ eres.calls = <<<<"n","o","n",".","e","x","i","s","t","e","n","t",".","f","i","e","l","d">>, <<"p","o","r","t">>>>
    /\ eres.err = NoErr
    /\ eres.v[1][2] = IntV(99)

\* the same variables, strict: the not-found error came back and port was
\* not set
C22_WitnessStrict ==
    /\ EnvSetApplied
    /\ eres.strict
    /\ eres.calls = <<<<"n","o","n",".","e","x","i","s","t","e","n","t",".","f","i","e","l","d">>>>
    /\ eres.err = NotFoundError(<<"n","o","n",".","e","x","i","s","t","e","n","t",".","f","i","e","l","d">>)
    /\ <<"p","o","r","t">> \in MatchedPaths(environ, eres.prefix, IndexUsed(eres.index))
    /\ eres.v[1][2] = IntV(80)

\* not strict, APP_PORT=zz failed to be coerced: the type error came back at
\* once and sub2.name, matched too, was not set
C22_WitnessOther ==
    /\ EnvSetApplied
    /\ ~eres.strict
    /\ UncoerciblePaths = {<<"p","o","r","t">>}
    /\ <<"s","u","b","2",".","n","a","m","e">> \in MatchedPaths(environ, eres.prefix, IndexUsed(eres.index))
    /\ eres.calls = <<<<"p","o","r","t">>>>
    /\ eres.err = TypeError(<<"p","o","r","t">>)
    /\ eres.v[1][3] = <<>>

\* ------------------------------------------------------------------------
\* Load: lookup errors in the flag layer, and when the environment layer runs
\* ------------------------------------------------------------------------

\* an explicitly set flag is bound to a path that names no field of LoadConfig
FlagToNowhere ==
    \E p \in DOMAIN bound :
       /\ bound[p].changed
       /\ p \notin {f.path : f \in LeafFields} \cup {<<"s","u","b","2">>, <<"s","u","b","3">>}

\* C23: lookup errors are fatal only in strict mode in every layer: a Load
\* that is not strict and comes to its layers with an explicitly set flag
\* bound to a path that does not exist in the record skips the flag and
\* succeeds (no value in the environment or in a flag failing to be coerced).
C23_FlagLookupStrictOnly ==
    (/\ Loaded
     /\ lres.layers
     /\ ~lcall.strict
     /\ FlagToNowhere
     /\ ~BadFlagValue
     /\ ~(lres.envRan /\ BadEnvValue(LoadPrefix)))
    => lres.err = NoErr /\ lres.cfg # <<>>

\* the flag layer of a Load that is not strict returned the not-found error
\* of the flag's path and Load returned no record
C23_FlagLookupFatal ==
    /\ Loaded
    /\ lres.layers
    /\ ~lcall.strict
    /\ FlagToNowhere
    /\ lres.err = NotFoundError(<<"n","o","p","e">>)
    /\ lres.cfg = <<>>

\* the environment with nothing but the variable CONFIG, which names the file
OnlyConfigVar == SelectSeq(environ, LAMBDA e : EnvName(e) = <<"C","O","N","F","I","G">>)

\* C24: Load runs the environment layer only when the caller configured a
\* name: without WithName the layer does not run, and record, file path and
\* error are what they are with no variable in the environment but CONFIG,
\* with an explicit file path and without one, strict or not.
C24_NoNameNoEnvironment ==
    (Loaded /\ lcall.name = <<>>) =>
       /\ ~lres.envRan
       /\ \E order \in Orders(DOMAIN bound) :
             LET Same(r) == lres.err = r.err /\ lres.cfg = r.cfg /\ lres.file = r.file
             IN Same(Load(LoadConfig, CallOptions, OnlyConfigVar, fsys, order))

\* a Load without WithName and without WithFile took port from CONFIG_PORT
C24_DefaultNamePrefix ==
    /\ Loaded
    /\ lcall.name = <<>> /\ lcall.file = <<>>
    /\ lres.envRan
    /\ lres.calls = <<<<"p","o","r","t">>>>
    /\ lres.err = NoErr
    /\ lres.cfg[1][2] = IntV(44)

\* the part of C24 the code keeps: without WithName and with an explicit
\* file path the environment layer does not run
C24_ExplicitFileNoEnvironment ==
    (Loaded /\ lcall.name = <<>> /\ lcall.file # <<>>) =>
       /\ ~lres.envRan
       /\ \E order \in Orders(DOMAIN bound) :
             LET Same(r) == lres.err = r.err /\ lres.cfg = r.cfg /\ lres.file = r.file
             IN Same(Load(LoadConfig, CallOptions, <<>>, fsys, order))

\* the variables of the environment whose name starts with the prefix,
\* letter case included, and with them those whose name is in keep
WithPrefixOnly(prefix, keep) ==
    SelectSeq(environ, LAMBDA e : \/ /\ Len(EnvName(e)) >= Len(prefix)
                                     /\ SubSeq(EnvName(e), 1, Len(prefix)) = prefix
                                  \/ EnvName(e) \in keep)

\* the prefix of a name: upper case, "." and "-" as "_", and "_" after it
PrefixOf(name) ==
    [i \in 1..Len(name) |-> IF name[i] \in {".", "-"} THEN "_" ELSE ToUpperC(name[i])] \o <<"_">>

\* C25: with a prefix that is not empty, the variables whose name does not
\* start with the prefix change nothing and cause no error, strict or not:
\* the layer's calls, record and error (Load's record, file path and error)
\* are those it has without them; the prefix is the upper-cased name with "."
\* and "-" as "_" and a trailing "_", and a variable that has it is resolved
\* by the rest of its name.
C25_PrefixFilter ==
    /\ (lpc = "envset" /\ eres.prefix # <<>>) =>
          /\ \E n \in EnvSetNames : n # <<>> /\ eres.prefix = PrefixOf(n)
          /\ LET Same(r) == /\ eres.err = r.err /\ eres.ret = r.ret
                            /\ eres.v = <<r.v>> /\ eres.calls = r.calls
             IN Same(EnvSet(DefaultsSet(Zero(LoadConfig), LoadConfig), LoadConfig,
                            eres.prefix, eres.strict, eres.index,
                            WithPrefixOnly(eres.prefix, {})))
          /\ eres.err = NoErr =>
                \A e \in Range(WithPrefixOnly(eres.prefix, {})), f \in LeafFields :
                   ToUpper(Trim(SubSeq(EnvName(e), Len(eres.prefix) + 1, Len(EnvName(e))),
                                KeyCutset)) = f.key
                   => \E i \in DOMAIN eres.calls : eres.calls[i] = f.path
    /\ (Loaded /\ lres.envRan) =>
          /\ LoadPrefix = PrefixOf(lres.o.Name)
          /\ \E order \in Orders(DOMAIN bound) :
                LET Same(r) == /\ lres.err = r.err /\ lres.cfg = r.cfg
                               /\ lres.file = r.file /\ lres.calls = r.calls
                IN Same(Load(LoadConfig, CallOptions,
                             WithPrefixOnly(LoadPrefix, {<<"C","O","N","F","I","G">>}), fsys, order))

\* C25 witness: strict, with the prefix APP_, app_PORT=55 and APP_PORT=99
\* were in the environment: no error, and port is 99
C25_Witness ==
    /\ lpc = "envset"
    /\ eres.strict
    /\ eres.prefix = <<"A","P","P","_">>
    /\ \E i, j \in DOMAIN environ : /\ environ[i] = <<"a","p","p","_","P","O","R","T","=","5","5">>
                                    /\ environ[j] = <<"A","P","P","_","P","O","R","T","=","9","9">>
    /\ eres.err = NoErr
    /\ eres.calls = <<<<"p","o","r","t">>>>
    /\ eres.v[1][2] = IntV(99)

\* strict, with the name "app-" and so the prefix APP__, APP_PORT=99 and
\* APP__port_=77 were in the environment: no error, and port is 77
C25_WitnessRewritten ==
    /\ lpc = "envset"
    /\ eres.strict
    /\ eres.prefix = <<"A","P","P","_","_">>
    /\ \E i, j \in DOMAIN environ : /\ environ[i] = <<"A","P","P","_","P","O","R","T","=","9","9">>
                                    /\ environ[j] = <<"A","P","P","_","_","p","o","r","t","_","=","7","7">>
    /\ eres.err = NoErr
    /\ eres.v[1][2] = IntV(77)

\* ------------------------------------------------------------------------
\* Load: which file is found
\* ------------------------------------------------------------------------

\* the directories searched, in order: the callers' paths, the working
\* directory, the home directory
SearchOrder == lcall.paths \o <<Cwd, Home>>

\* the files of directory d whose base name is the search name and whose
\* suffix is a configured extension
Candidates(d) ==
    {d \o <<"/">> \o EffectiveName \o e.Name : e \in Range(ConfiguredExtensions)}
    \cap DOMAIN fsys

\* C26: without an explicit file, a CONFIG value that is not empty is the
\* file, whatever lies in the search directories, and its unknown suffix is
\* an error; without CONFIG the callers' paths, the working directory and the
\* home directory are searched in this order and the file is one of the
\* first directory that holds a file of the search name ("config" when no
\* name is given) with a configured suffix; when no directory holds one, no
\* file is used and Load fails for no reason of the file.
C26_FileResolutionOrder ==
    (Loaded /\ lcall.file = <<>>) =>
       /\ (ConfigVar # <<>> /\ ~Contains(ConfigVar, <<".", ".">>)) =>
             IF FirstSuffixType(ConfigVar, ConfiguredExtensions) = UnknownFileType
             THEN lres.err = UnknownFileTypeError(ConfigVar) /\ lres.cfg = <<>>
             ELSE /\ lres.o.File = ConfigVar
                  /\ ConfigVar \notin DOMAIN fsys => lres.err = ReadError(ConfigVar)
                  /\ (ConfigVar \in DOMAIN fsys /\ lres.err = NoErr) => lres.file = ConfigVar
       /\ ConfigVar = <<>> =>
             IF \A i \in DOMAIN SearchOrder : Candidates(SearchOrder[i]) = {}
             THEN /\ lres.o.File = <<>>
                  /\ lres.file = <<>>
                  /\ lres.first = <<>>
                  /\ lres.err.kind \notin {"notexist", "unknownfiletype", "traversal", "decode"}
             ELSE \E i \in DOMAIN SearchOrder :
                     /\ \A j \in 1..(i - 1) : Candidates(SearchOrder[j]) = {}
                     /\ lres.o.File \in Candidates(SearchOrder[i])
                     /\ lres.o.FileType = FirstSuffixType(lres.o.File, ConfiguredExtensions)
                     /\ lres.err = NoErr => lres.file = lres.o.File

\* C26 witness: /w/app.json and /h/app.yaml are both there; the Load with
\* the name "app" and no path took /w/app.json
C26_Witness ==
    /\ Loaded
    /\ lcall.file = <<>> /\ lcall.paths = <<>> /\ lcall.ext = <<>>
    /\ ConfigVar = <<>>
    /\ DOMAIN fsys = {<<"/","w","/","a","p","p",".","j","s","o","n">>, <<"/","h","/","a","p","p",".","y","a","m","l">>}
    /\ lres.o.File = <<"/","w","/","a","p","p",".","j","s","o","n">>

\* with the same files and WithPaths naming the home directory, Load took
\* /h/app.yaml
C26_WitnessPaths ==
    /\ Loaded
    /\ lcall.file = <<>> /\ lcall.paths = <<Home>>
    /\ ConfigVar = <<>>
    /\ DOMAIN fsys = {<<"/","w","/","a","p","p",".","j","s","o","n">>, <<"/","h","/","a","p","p",".","y","a","m","l">>}
    /\ lres.o.File = <<"/","h","/","a","p","p",".","y","a","m","l">>

\* with /w/app.json there and CONFIG naming /h/app.yaml, which is not there,
\* Load failed reading /h/app.yaml
C26_WitnessConfig ==
    /\ Loaded
    /\ lcall.file = <<>> /\ lcall.name = <<"a","p","p">> /\ lcall.ext = <<>>
    /\ ConfigVar = <<"/","h","/","a","p","p",".","y","a","m","l">>
    /\ DOMAIN fsys = {<<"/","w","/","a","p","p",".","j","s","o","n">>}
    /\ lres.err = ReadError(<<"/","h","/","a","p","p",".","y","a","m","l">>)

\* ------------------------------------------------------------------------
\* The Optional flag of the entries
\* ------------------------------------------------------------------------

\* the number of "[]" a path segment ends with
RECURSIVE ElemDepth(_)
ElemDepth(seg) ==
    IF HasSuffix(seg, EmptyBrackets) THEN 1 + ElemDepth(SubSeq(seg, 1, Len(seg) - 2)) ELSE 0

\* the declared type of the elements, n collections below the declared type t
RECURSIVE ElemType(_, _)
ElemType(t, n) == IF n = 0 THEN t ELSE ElemType(Deref(t).elem, n - 1)

\* the type declared for what the path segments segs name below the record
\* type t: the type of the field, or of the element of the collection when
\* the last segment ends with "[]"
RECURSIVE DeclaredType(_, _)
DeclaredType(t, segs) ==
    LET seg   == segs[1]
        depth == ElemDepth(seg)
        base  == SubSeq(seg, 1, Len(seg) - 2 * depth)
        field == Deref(t).fields[CHOOSE i \in DOMAIN Deref(t).fields :
                                    /\ IsExported(Deref(t).fields[i])
                                    /\ ToLower(Deref(t).fields[i].name) = base]
        here  == ElemType(field.type, depth)
    IN IF Len(segs) = 1 THEN here ELSE DeclaredType(here, Tail(segs))

\* the entry names a field, not the elements of a collection
NamesField(item) == ~HasSuffix(item.Path, EmptyBrackets)

\* the paths of the entries that name a field whose declared type is a pointer
PointerFieldPaths ==
    {idx[k].Path : k \in {x \in DOMAIN idx :
                            /\ NamesField(idx[x])
                            /\ DeclaredType(typ, SplitOn(idx[x].Path, <<".">>)).kind = "ptr"}}

Reordered(perm) == [i \in DOMAIN environ |-> environ[perm[i]]]

\* env.Set of the last direct call, in the environment env
EnvSetAgain(env) ==
    EnvSet(DefaultsSet(Zero(LoadConfig), LoadConfig), LoadConfig, eres.prefix,
           eres.strict, eres.index, env)

\* no two matched variables resolve to one path
NoCollision ==
    \A i, j \in Matched(environ, eres.prefix, IndexUsed(eres.index)) :
       i # j => ResolvedPath(environ, i, eres.prefix, IndexUsed(eres.index))
                  # ResolvedPath(environ, j, eres.prefix, IndexUsed(eres.index))

\* C28: for given variables and a given index the target the environment
\* layer leaves, and whether it fails, do not depend on the order in which
\* the environment lists the variables, two variables that normalize to one
\* path included.
C28_OrderIndependent ==
    lpc = "envset" =>
       \A perm \in Orders(DOMAIN environ) :
          LET Same(r) == eres.v = <<r.v>> /\ (eres.err = NoErr <=> r.err = NoErr)
          IN Same(EnvSetAgain(Reordered(perm)))

\* the same for variables that resolve to paths that differ
C28_OrderIndependentDistinct ==
    (lpc = "envset" /\ NoCollision) =>
       \A perm \in Orders(DOMAIN environ) :
          LET Same(r) == eres.v = <<r.v>> /\ (eres.err = NoErr <=> r.err = NoErr)
          IN Same(EnvSetAgain(Reordered(perm)))

\* APP_PORT=99 before APP__port_=77 left port 77; listed the other way
\* round the same variables leave port 99
C28_LastListedWins ==
    /\ lpc = "envset"
    /\ eres.prefix = <<"A","P","P","_">>
    /\ environ = <<<<"A","P","P","_","P","O","R","T","=","9","9">>, <<"A","P","P","_","_","p","o","r","t","_","=","7","7">>>>
    /\ eres.err = NoErr
    /\ eres.v[1][2] = IntV(77)
    /\ EnvSetAgain(<<<<"A","P","P","_","_","p","o","r","t","_","=","7","7">>, <<"A","P","P","_","P","O","R","T","=","9","9">>>>).v[2] = IntV(99)

\* the normalized keys of the variables of env that carry the prefix and do
\* not resolve in the index
Unresolved(env, prefix, index) ==
    {NormalizedKey(env[i], prefix) :
        i \in {j \in DOMAIN env : HasPrefix(EnvName(env[j]), prefix)}
              \ Matched(env, prefix, index)}

\* C29: when the strict environment layer fails for a key that does not
\* resolve in the index, it has not called the path-setter: it returns the
\* not-found error of such a key and the target holds what it held before
\* the call, whatever variables that resolve are in the environment, listed
\* before the failing one or after it.
C29_StrictFailureLeavesTarget ==
    /\ (lpc = "envset" /\ eres.strict
        /\ Unresolved(environ, eres.prefix, IndexUsed(eres.index)) # {}) =>
          /\ eres.err \in {NotFoundError(k) :
                             k \in Unresolved(environ, eres.prefix, IndexUsed(eres.index))}
          /\ eres.calls = <<>>
          /\ eres.v = <<DefaultRecord>>
          /\ eres.ret = <<>>
    /\ (Loaded /\ lres.envRan /\ lcall.strict
        /\ Unresolved(environ, LoadPrefix, lres.o.Index) # {}) =>
          /\ lres.err \in {NotFoundError(k) : k \in Unresolved(environ, LoadPrefix, lres.o.Index)}
          /\ lres.calls = <<>>

\* C29 witness: strict, APP_PORT=99 came before APP_NOPE=1 in the
\* environment; env.Set failed for NOPE and port still holds its default
C29_Witness ==
    /\ lpc = "envset"
    /\ eres.strict
    /\ eres.prefix = <<"A","P","P","_">>
    /\ environ = <<<<"A","P","P","_","P","O","R","T","=","9","9">>, <<"A","P","P","_","N","O","P","E","=","1">>>>
    /\ eres.err = NotFoundError(<<"N","O","P","E">>)
    /\ eres.calls = <<>>
    /\ eres.v[1][2] = IntV(80)

\* ------------------------------------------------------------------------
\* Load: what the reload step changes
\* ------------------------------------------------------------------------

\* the file layer of the last Load read a file and handed a record on
FileLayerDone == Loaded /\ lres.first # <<>> /\ lres.filed # <<>>

\* the optional substructure at position i exists after the first pass
Populated(i) == lres.first[1][i] # <<>>

\* C30: when the file populated an optional substructure Load rebuilds the
\* record, and every field outside the populated optional substructures, and
\* every optional substructure that is not populated, is in the rebuilt
\* record what it was after the first pass (defaults, then file); when the
\* first pass left no optional substructure populated the record is not
\* rebuilt and the first record is the one handed on.
C30_ReloadFrame ==
    FileLayerDone =>
       IF \E i \in OptionalFields : Populated(i)
       THEN /\ lres.reloaded
            /\ \A f \in LeafFields :
                  (Len(f.at) = 1 \/ ~Populated(f.at[1])) =>
                     ValueAt(lres.filed[1], f.at) = ValueAt(lres.first[1], f.at)
            /\ \A i \in OptionalFields :
                  ~Populated(i) => lres.filed[1][i] = lres.first[1][i]
       ELSE /\ ~lres.reloaded
            /\ lres.changed = {}
            /\ lres.filed = lres.first

\* C30 witness: the file gave sub2.name only; the record was rebuilt, host
\* and port are what they were after the first pass and Sub3 is still nil,
\* while Sub2 got the default of Other
C30_Witness ==
    /\ FileLayerDone
    /\ lres.reloaded
    /\ Populated(3) /\ ~Populated(4)
    /\ lres.first[1][3] = <<<<StrV(<<"f","n">>), StrV(<<>>)>>>>
    /\ lres.filed[1][3] = <<<<StrV(<<"f","n">>), StrV(<<"d","2">>)>>>>
    /\ lres.filed[1][1] = lres.first[1][1] /\ lres.filed[1][2] = lres.first[1][2]
    /\ lres.filed[1][4] = <<>>

\* the file gave host and port only: the record was not rebuilt
C30_WitnessKept ==
    /\ FileLayerDone
    /\ ~lres.reloaded
    /\ lres.first[1][2] = IntV(90)
    /\ lres.filed = lres.first

====
